---------------------------- MODULE Spec2Model ----------------------------
(***************************************************************************)
(* Model of the resolution orchestrator of secure-dns-resolver             *)
(* (src/src/resolver.rs): resolve, resolve_raw, the four batch operations  *)
(* and the provider race built on futures::future::select_ok.              *)
(*                                                                         *)
(* The transports (doh.rs, dot.rs, doh3.rs) are the environment: a call    *)
(* that was issued completes later with Ok(payload), with Err(description) *)
(* or by panicking, or it never completes.  Durations are wall-clock       *)
(* measurements taken inside an attempt and travel with its tuple; they    *)
(* are not modelled.                                                       *)
(*                                                                         *)
(* The pure functions of the library (lib.rs, providers.rs), the ECH       *)
(* parser (ech.rs) and the loop of the command-line program over the       *)
(* providers (bin/main.rs) are modelled after the orchestrator.            *)
(***************************************************************************)
EXTENDS Integers, Sequences, FiniteSets, Bags, TLC

(* ------------------------------ bounds -------------------------------- *)
MaxHosts == 2

Hostnames == {"a.example", "b.example"}
Payloads  == {"p1"}
Errors    == {"e1", "e2"}

(* ------------------------- lib.rs: closed enums ----------------------- *)
Protocols == {"Doh", "Dot", "Doh3"}

ProviderAll == <<"Cloudflare", "Google", "Quad9", "NextDns">>

Providers == {ProviderAll[k] : k \in 1..Len(ProviderAll)}

RecordTypes == {"A", "AAAA", "CNAME", "MX", "TXT", "NS", "HTTPS", "SVCB"}

(* mutant: the codes of HTTPS and SVCB are exchanged *)
to_type_code_swapped(t) ==
    CASE t = "A"     -> 1
      [] t = "AAAA"  -> 28
      [] t = "CNAME" -> 5
      [] t = "MX"    -> 15
      [] t = "TXT"   -> 16
      [] t = "NS"    -> 2
      [] t = "HTTPS" -> 64
      [] t = "SVCB"  -> 65

(* RecordType::to_type_code *)
to_type_code(t) ==
    CASE t = "A"     -> 1
      [] t = "AAAA"  -> 28
      [] t = "CNAME" -> 5
      [] t = "MX"    -> 15
      [] t = "TXT"   -> 16
      [] t = "NS"    -> 2
      [] t = "HTTPS" -> 65
      [] t = "SVCB"  -> 64

(* u16 *)
U16 == 0..65535

(* mutant: the code is matched on its low byte *)
from_code_low_byte(code) ==
    CASE code % 256 = 1  -> "A"
      [] code % 256 = 28 -> "AAAA"
      [] code % 256 = 5  -> "CNAME"
      [] code % 256 = 15 -> "MX"
      [] code % 256 = 16 -> "TXT"
      [] code % 256 = 2  -> "NS"
      [] code % 256 = 65 -> "HTTPS"
      [] code % 256 = 64 -> "SVCB"
      [] OTHER -> "UNKNOWN"

(* RecordType::from_code: the name of the record type of a code *)
from_code(code) ==
    CASE code = 1  -> "A"
      [] code = 28 -> "AAAA"
      [] code = 5  -> "CNAME"
      [] code = 15 -> "MX"
      [] code = 16 -> "TXT"
      [] code = 2  -> "NS"
      [] code = 65 -> "HTTPS"
      [] code = 64 -> "SVCB"
      [] OTHER -> "UNKNOWN"

(* impl fmt::Display for RecordType: the name a record type is written as *)
fmt_RecordType(t) ==
    CASE t = "A"     -> "A"
      [] t = "AAAA"  -> "AAAA"
      [] t = "CNAME" -> "CNAME"
      [] t = "MX"    -> "MX"
      [] t = "TXT"   -> "TXT"
      [] t = "NS"    -> "NS"
      [] t = "HTTPS" -> "HTTPS"
      [] t = "SVCB"  -> "SVCB"

(* providers.rs: the endpoint configuration handed to the transport *)
from_provider(p) ==
    CASE p = "Cloudflare" -> [name |-> "Cloudflare", doh_url |-> "https://cloudflare-dns.com/dns-query",
                              dot_host |-> "1.1.1.1", doh3_host |-> "1.1.1.1"]
      [] p = "Google"     -> [name |-> "Google", doh_url |-> "https://dns.google/dns-query",
                              dot_host |-> "8.8.8.8", doh3_host |-> "8.8.8.8"]
      [] p = "Quad9"      -> [name |-> "Quad9", doh_url |-> "https://dns.quad9.net/dns-query",
                              dot_host |-> "9.9.9.9", doh3_host |-> "9.9.9.9"]
      [] p = "NextDns"    -> [name |-> "NextDNS", doh_url |-> "https://dns.nextdns.io/dns-query",
                              dot_host |-> "45.90.28.0", doh3_host |-> "45.90.28.0"]
      [] p = "Nord"       -> [name |-> "Nordsec", doh_url |-> "https://dns1.nordvpn.com/dns-query",
                              dot_host |-> "103.86.99.112", doh3_host |-> "103.86.99.112"]

(* the providers from_provider has a match arm for (providers.rs 22-79) *)
ConfiguredProviders == {"Cloudflare", "Google", "Quad9", "NextDns", "Nord"}

(* ------------------------------ values -------------------------------- *)
None == [tag |-> "None"]
Pending == [tag |-> "Pending"]
Ok(v) == [tag |-> "Ok", val |-> v]
Err(m) == [tag |-> "Err", msg |-> m]
Panic == [tag |-> "Panic"]

(* what a transport call can complete with: Ok(records or bytes), an error *)
(* whose Display text is the one-element message <<e>>, or a panic         *)
TransportOutcomes ==
    {Ok(d) : d \in Payloads} \cup {Err(<<e>>) : e \in Errors} \cup {Panic}

(* ----------------------------- operations ----------------------------- *)
SingleOps    == {"resolve", "resolve_raw"}
BatchOps     == {"resolve_batch", "resolve_batch_raw"}
RaceBatchOps == {"resolve_batch_race", "resolve_batch_race_raw"}
RaceOps      == RaceBatchOps \cup {"resolve_race"}
SpawningOps  == BatchOps \cup RaceBatchOps
Ops          == SingleOps \cup SpawningOps \cup {"resolve_race"}

IsRaw(o) == o \in {"resolve_raw", "resolve_batch_raw", "resolve_batch_race_raw"}

SeqsUpTo(S, n) == UNION {[1..k -> S] : k \in 0..n}

VARIABLES
    op, hostnames, provider, protocol, type_code, verbose,   \* the call's arguments
    input,      \* the argument of a call of a library function
    cli,        \* the command-line program around the operation, None without it
    pc,         \* the caller: "run", "done", "panicked"
    handles,    \* number of JoinHandles pushed by the spawn loop
    task,       \* per unit: [st, out]; st in none/created/running/finished/panicked
    inner,      \* per unit: the futures select_ok still holds, in vector order
    ready,      \* per unit and provider: what the transport call completed with
    observed,   \* per unit: providers in the order select_ok saw them Ready (history)
    results,    \* the results Vec of the collect loop
    returned,   \* the value the operation returned
    calls,      \* bag of transport invocations made so far
    diag        \* the [verbose] lines the orchestrator has written to stderr

vars == <<op, hostnames, provider, protocol, type_code, verbose, input, cli, pc, handles,
          task, inner, ready, observed, results, returned, calls, diag>>

args == <<op, hostnames, provider, protocol, type_code, verbose, input, cli>>

Units == 1..Len(hostnames)

(* ------------------------- transport dispatch -------------------------- *)
(* match protocol { Doh => self.doh, Dot => self.dot, Doh3 => self.doh3 }  *)
Transport(proto) ==
    CASE proto = "Doh"  -> "DohResolver"
      [] proto = "Dot"  -> "DotResolver"
      [] proto = "Doh3" -> "Doh3Resolver"

(* one invocation of a transport: which resolver, which method, which arguments *)
Invocation(h, p) ==
    [transport |-> Transport(protocol),
     method    |-> IF IsRaw(op) THEN "resolve_raw" ELSE "resolve",
     hostname  |-> h,
     config    |-> from_provider(p),
     type_code |-> type_code,
     verbose   |-> verbose]

Invoke(h, p) == calls (+) SetToBag({Invocation(h, p)})


(* ------------------------------- Init ---------------------------------- *)
(* The state at the call of one operation.  A batch operation owns one     *)
(* unit per hostname, spawned by its loop; resolve, resolve_raw and        *)
(* resolve_race run their single unit in the caller's own future.          *)
InitOf(opset, lists, provs, protos, codes, flags) ==
    /\ op \in opset
    /\ hostnames \in IF op \in SpawningOps THEN lists ELSE [1..1 -> Hostnames]
    /\ provider \in IF op \in RaceOps THEN {"-"} ELSE provs
    /\ protocol \in protos
    /\ type_code \in IF IsRaw(op) THEN codes
                     ELSE {to_type_code(t) : t \in {u \in RecordTypes : to_type_code(u) \in codes}}
    /\ verbose \in flags
    /\ input = None
    /\ cli = None
    /\ pc = "run"
    /\ handles = 0
    /\ task = [i \in Units |->
                 [st |-> IF op \in SpawningOps THEN "none" ELSE "created", out |-> None]]
    /\ inner = [i \in Units |-> <<>>]
    /\ ready = [i \in Units |-> [p \in Providers |-> None]]
    /\ observed = [i \in Units |-> <<>>]
    /\ results = <<>>
    /\ returned = None
    /\ calls = EmptyBag
    /\ diag = {}

HostLists == SeqsUpTo(Hostnames, MaxHosts)

(* the lists of one repeated hostname and those of two alternating ones *)
BatchLists ==
    SeqsUpTo({"a.example"}, MaxHosts)
    \cup {[i \in 1..k |-> IF i % 2 = 1 THEN "a.example" ELSE "b.example"] : k \in 0..MaxHosts}

(* Inputs: the single-hostname operations are exercised with every         *)
(* provider and protocol, the batches with fewer argument combinations.    *)
(* The batch races run without diagnostics here; SpecRace and SpecOps run  *)
(* races with them.                                                        *)
Init ==
    \/ InitOf(SingleOps \cup {"resolve_race"}, HostLists,
              Providers, Protocols, {to_type_code("A"), to_type_code("HTTPS"), 999}, BOOLEAN)
    \/ InitOf(BatchOps, BatchLists,
              {"Cloudflare", "NextDns"}, Protocols, {to_type_code("HTTPS")}, {TRUE})
    \/ InitOf(RaceBatchOps, BatchLists,
              Providers, {"Doh3"}, {to_type_code("HTTPS")}, {FALSE})

(* --------------------------- the spawn loop ---------------------------- *)
(* mutant: the loop awaits the task it spawned before it spawns the next *)
SpawnAfterPrevious ==
    /\ pc = "run"
    /\ op \in SpawningOps
    /\ handles < Len(hostnames)
    /\ handles > 0 => task[handles].st \in {"finished", "panicked"}
    /\ handles' = handles + 1
    /\ task' = [task EXCEPT ![handles + 1].st = "created"]
    /\ UNCHANGED <<args, pc, inner, ready, observed, results, returned, calls, diag>>

(* for hostname in hostnames { ...; handles.push(tokio::spawn(...)) }      *)
Spawn ==
    /\ pc = "run"
    /\ op \in SpawningOps
    /\ handles < Len(hostnames)
    /\ handles' = handles + 1
    /\ task' = [task EXCEPT ![handles + 1].st = "created"]
    /\ UNCHANGED <<args, pc, inner, ready, observed, results, returned, calls, diag>>

(* ---------------------- completion of a unit --------------------------- *)
(* mutant: a unit that fails or crashes cancels the units still running *)
FinishAbortSiblings(i, out) ==
    /\ task' = [k \in Units |->
                  IF k = i
                  THEN [st |-> IF out = Panic THEN "panicked" ELSE "finished", out |-> out]
                  ELSE IF out.tag # "Ok" /\ task[k].st \in {"created", "running"}
                       THEN [st |-> "panicked", out |-> Panic]
                       ELSE task[k]]
    /\ IF op \in SpawningOps
       THEN UNCHANGED <<pc, returned>>
       ELSE /\ pc' = IF out = Panic THEN "panicked" ELSE "done"
            /\ returned' = IF out = Panic THEN None ELSE out

(* A spawned unit leaves its output (or its panic) in its JoinHandle; a    *)
(* unit run by the caller itself hands it to the caller.                   *)
Finish(i, out) ==
    /\ task' = [task EXCEPT ![i] = [st  |-> IF out = Panic THEN "panicked" ELSE "finished",
                                    out |-> out]]
    /\ IF op \in SpawningOps
       THEN UNCHANGED <<pc, returned>>
       ELSE /\ pc' = IF out = Panic THEN "panicked" ELSE "done"
            /\ returned' = IF out = Panic THEN None ELSE out

(* mutant: every unit captures the first hostname of the list *)
UnitHostnameFirst(i) == hostnames[1]

(* let hostname = hostname.clone(): the hostname unit i works on *)
UnitHostname(i) == hostnames[i]

(* mutant: the spawn loop awaits each task before it spawns the next, so a *)
(* unit starts only when the units before it are over                      *)
UnitStartAfterSiblings(i) ==
    /\ op \in SingleOps \cup BatchOps
    /\ task[i].st = "created"
    /\ \A k \in 1..(i - 1) : task[k].st \in {"finished", "panicked"}
    /\ task' = [task EXCEPT ![i].st = "running"]
    /\ calls' = Invoke(UnitHostname(i), provider)
    /\ UNCHANGED <<args, pc, handles, inner, ready, observed, results, returned, diag>>

(* ------------------- resolve / the unit of a batch --------------------- *)
(* First poll of the unit: the transport selected by the protocol is       *)
(* invoked for the unit's hostname and the given provider.                 *)
UnitStart(i) ==
    /\ op \in SingleOps \cup BatchOps
    /\ task[i].st = "created"
    /\ task' = [task EXCEPT ![i].st = "running"]
    /\ calls' = Invoke(UnitHostname(i), provider)
    /\ UNCHANGED <<args, pc, handles, inner, ready, observed, results, returned, diag>>

(* mutant: a transport failure is wrapped into a new error *)
resolve_with_context(o) == IF o.tag = "Err" THEN Err(<<"Query failed">> \o o.msg) ELSE o

(* what resolve / resolve_raw / the spawned block make of the transport's outcome *)
resolve_output(o) == o

(* mutant: resolve_raw turns a failure into an empty payload *)
resolve_raw_swallow(o) == IF o.tag = "Err" THEN Ok("") ELSE o

(* the same for resolve_raw and the block resolve_batch_raw spawns         *)
(* (resolver.rs 102-106, 184-190)                                          *)
resolve_raw_output(o) == o

(* The transport call completes; its outcome is the unit's output. *)
TransportReturn(i, o) ==
    /\ op \in SingleOps \cup BatchOps
    /\ task[i].st = "running"
    /\ ready' = [ready EXCEPT ![i][provider] = o]
    /\ Finish(i, IF IsRaw(op) THEN resolve_raw_output(o) ELSE resolve_output(o))
    /\ UNCHANGED <<args, handles, inner, observed, results, calls, diag>>

(* -------------------------- the collect loop --------------------------- *)
(* handle.await: Ok(output) of the task, or the JoinError of its crash *)
JoinOutput(t) == IF t.st = "panicked" THEN Err(<<"panicked">>) ELSE Ok(t.out)

(* mutant: .unwrap(), the JoinError of a crashed task panics in the caller *)
unwrap(j) == IF j.tag = "Ok" THEN j.val ELSE Panic

(* .unwrap_or_else(|e| Err(anyhow!("Task failed: {}", e))) *)
unwrap_or_else(j) == IF j.tag = "Ok" THEN j.val ELSE Err(<<"Task failed">> \o j.msg)

(* mutant: handles.pop(), the handles are awaited last to first *)
NextHandleReversed == Len(hostnames) - Len(results)

(* for handle in handles: the handle the loop awaits next *)
NextHandle == Len(results) + 1

(* for handle in handles { results.push(handle.await.unwrap_or_else(..)) } *)
Collect ==
    /\ pc = "run"
    /\ op \in SpawningOps
    /\ handles = Len(hostnames)
    /\ Len(results) < Len(hostnames)
    /\ LET i == NextHandle
           r == unwrap_or_else(JoinOutput(task[i]))
       IN  /\ task[i].st \in {"finished", "panicked"}
           /\ IF r = Panic
              THEN pc' = "panicked" /\ UNCHANGED results
              ELSE results' = Append(results, r) /\ UNCHANGED pc
    /\ UNCHANGED <<args, handles, task, inner, ready, observed, returned, calls, diag>>

(* mutant: the operation returns with the results it has once one is in *)
ReturnPartial ==
    /\ pc = "run"
    /\ op \in SpawningOps
    /\ handles = Len(hostnames)
    /\ Len(results) >= 1 \/ Len(hostnames) = 0
    /\ pc' = "done"
    /\ returned' = [tag |-> "Vec", val |-> results]
    /\ UNCHANGED <<args, handles, task, inner, ready, observed, results, calls, diag>>

(* results *)
Return ==
    /\ pc = "run"
    /\ op \in SpawningOps
    /\ handles = Len(hostnames)
    /\ Len(results) = Len(hostnames)
    /\ pc' = "done"
    /\ returned' = [tag |-> "Vec", val |-> results]
    /\ UNCHANGED <<args, handles, task, inner, ready, observed, results, calls, diag>>

(* ------------------------------ the race ------------------------------- *)
(* mutant: the future reports the first provider of the list as its own *)
race_future_first(p, o) ==
    IF o.tag = "Ok" THEN Ok([data |-> o.val, provider |-> ProviderAll[1]]) ELSE o

(* mutant: with verbose set, the failure arm returns the line it printed *)
race_future_verbose(p, o) ==
    CASE o.tag = "Ok" -> Ok([data |-> o.val, provider |-> p])
      [] o.tag = "Err" /\ verbose -> Err(<<p>> \o o.msg)
      [] OTHER -> o

(* The future built for one provider (resolver.rs 359-390): it awaits the  *)
(* transport and tags a success with its own provider; a failure passes    *)
(* through unchanged.                                                      *)
race_future(p, o) ==
    IF o.tag = "Ok" THEN Ok([data |-> o.val, provider |-> p]) ELSE o

(* mutant: the raw future forgets which provider answered *)
race_future_raw_untagged(p, o) ==
    IF o.tag = "Ok" THEN Ok([data |-> o.val, provider |-> "-"]) ELSE o

(* The future race_providers_raw builds for one provider (444-475). *)
race_future_raw(p, o) ==
    IF o.tag = "Ok" THEN Ok([data |-> o.val, provider |-> p]) ELSE o

(* the future of provider p in the race of this operation *)
RaceFuture(p, o) == IF IsRaw(op) THEN race_future_raw(p, o) ELSE race_future(p, o)

RemoveAt(s, k) == [j \in 1..(Len(s) - 1) |-> IF j < k THEN s[j] ELSE s[j + 1]]

SeqRange(s) == {s[k] : k \in 1..Len(s)}

(* mutant: the losing futures are kept alive after the race has returned *)
keep_remaining(rest) == rest

(* `_remaining`, the futures select_ok hands back with the winner, is      *)
(* dropped at the end of the match arm: nothing is left of them.           *)
drop_remaining(rest) == <<>>

(* mutant: the first failure ends the race *)
RECURSIVE SelectOkPollFailFast(_, _, _)
SelectOkPollFailFast(in, fut, seen) ==
    LET hit == {k \in 1..Len(in) : fut[in[k]] # Pending}
    IN  IF hit = {}
        THEN [poll |-> "Pending", inner |-> in, out |-> None, seen |-> seen]
        ELSE LET idx  == CHOOSE k \in hit : \A m \in hit : k <= m
                 res  == fut[in[idx]]
                 rest == RemoveAt(in, idx)
                 now  == Append(seen, in[idx])
             IN  IF res.tag = "Panic"
                 THEN [poll |-> "Panic", inner |-> <<>>, out |-> Panic, seen |-> now]
                 ELSE [poll |-> "Ready", inner |-> rest, out |-> res, seen |-> now]

(* mutant: when every future failed, the failure of the first provider of  *)
(* the list is reported instead of the one seen last                       *)
RECURSIVE SelectOkPollFirstError(_, _, _)
SelectOkPollFirstError(in, fut, seen) ==
    LET hit == {k \in 1..Len(in) : fut[in[k]] # Pending}
    IN  IF hit = {}
        THEN [poll |-> "Pending", inner |-> in, out |-> None, seen |-> seen]
        ELSE LET idx  == CHOOSE k \in hit : \A m \in hit : k <= m
                 res  == fut[in[idx]]
                 rest == RemoveAt(in, idx)
                 now  == Append(seen, in[idx])
             IN  CASE res.tag = "Panic" ->
                        [poll |-> "Panic", inner |-> <<>>, out |-> Panic, seen |-> now]
                   [] res.tag = "Ok" ->
                        [poll |-> "Ready", inner |-> rest, out |-> res, seen |-> now]
                   [] res.tag = "Err" ->
                        IF rest = <<>>
                        THEN [poll |-> "Ready", inner |-> rest,
                              out |-> IF fut[ProviderAll[1]].tag = "Err"
                                      THEN fut[ProviderAll[1]] ELSE res,
                              seen |-> now]
                        ELSE SelectOkPollFirstError(rest, fut, now)

(* One poll of select_ok(futures): scan the futures it holds in vector     *)
(* order up to the first one that is Ready and remove it; an Ok ends the   *)
(* race with the rest handed back, an Err ends it only when no future is   *)
(* left, otherwise the scan starts again.  A future that panics when       *)
(* polled unwinds the whole poll.  fut[p] is what provider p's future      *)
(* yields now; seen collects the providers found Ready.                    *)
RECURSIVE SelectOkPoll(_, _, _)
SelectOkPoll(in, fut, seen) ==
    LET hit == {k \in 1..Len(in) : fut[in[k]] # Pending}
    IN  IF hit = {}
        THEN [poll |-> "Pending", inner |-> in, out |-> None, seen |-> seen]
        ELSE LET idx  == CHOOSE k \in hit : \A m \in hit : k <= m
                 res  == fut[in[idx]]
                 rest == RemoveAt(in, idx)
                 now  == Append(seen, in[idx])
             IN  CASE res.tag = "Panic" ->
                        [poll |-> "Panic", inner |-> <<>>, out |-> Panic, seen |-> now]
                   [] res.tag = "Ok" ->
                        [poll |-> "Ready", inner |-> rest, out |-> res, seen |-> now]
                   [] res.tag = "Err" ->
                        IF rest = <<>>
                        THEN [poll |-> "Ready", inner |-> rest, out |-> res, seen |-> now]
                        ELSE SelectOkPoll(rest, fut, now)

(* match select_ok(futures).await { Ok((result, _remaining)) => Ok(result), *)
(*   Err(e) => Err(anyhow!("All providers failed: {}", e)) }                *)
race_result(sel) ==
    IF sel.tag = "Ok" THEN sel ELSE Err(<<"All providers failed">> \o sel.msg)

(* mutant: the raw race reports the bare failure, without its prefix *)
race_result_raw_bare(sel) == sel

(* the same match in race_providers_raw (483-494) *)
race_result_raw(sel) ==
    IF sel.tag = "Ok" THEN sel ELSE Err(<<"All providers failed">> \o sel.msg)

RaceResult(sel) == IF IsRaw(op) THEN race_result_raw(sel) ELSE race_result(sel)

(* mutant: the last provider of the list gets no attempt *)
RaceInvocationsSkip(h) ==
    LET RECURSIVE Sum(_)
        Sum(k) == IF k = 0 THEN EmptyBag
                  ELSE Sum(k - 1) (+) SetToBag({Invocation(h, ProviderAll[k])})
    IN  Sum(Len(ProviderAll) - 1)

(* First poll of race_providers / race_providers_raw: one future per       *)
(* provider of Provider::all(), each invoking the transport for the race's *)
(* hostname; all of them are handed to select_ok.                          *)
RaceInvocations(h) ==
    LET RECURSIVE Sum(_)
        Sum(k) == IF k = 0 THEN EmptyBag
                  ELSE Sum(k - 1) (+) SetToBag({Invocation(h, ProviderAll[k])})
    IN  Sum(Len(ProviderAll))

(* if verbose { eprintln!("  [verbose] ...") }: one line of diagnostics,     *)
(* identified by its kind, the race that wrote it and the provider named   *)
Line(kind, i, p) == [kind |-> kind, unit |-> i, hostname |-> UnitHostname(i), provider |-> p]

Emit(lines) == IF verbose THEN diag \cup lines ELSE diag

(* the lines written during one poll of the race: one per attempt found    *)
(* completed (373-386), and the winner's line (400-405)                    *)
PollLines(i, fut, r) ==
    {Line(IF fut[p].tag = "Ok" THEN "responded" ELSE "failed", i, p) :
        p \in {q \in SeqRange(r.seen) : fut[q].tag # "Panic"}}
    \cup (IF r.poll = "Ready" /\ r.out.tag = "Ok"
          THEN {Line("winner", i, r.out.val.provider)} ELSE {})

RaceStart(i) ==
    /\ op \in RaceOps
    /\ task[i].st = "created"
    /\ calls' = calls (+) RaceInvocations(UnitHostname(i))
    /\ diag' = Emit({Line("racing", i, "-")})
    /\ IF ProviderAll = <<>>
       THEN /\ Finish(i, Err(<<"No providers available">>))
            /\ UNCHANGED <<inner, ready>>
       ELSE /\ task' = [task EXCEPT ![i].st = "running"]
            /\ inner' = [inner EXCEPT ![i] = ProviderAll]
            /\ ready' = [ready EXCEPT ![i] = [p \in Providers |-> Pending]]
            /\ UNCHANGED <<pc, returned>>
    /\ UNCHANGED <<args, handles, observed, results>>

(* The race task is polled with the attempts' transports in state rd. *)
RacePolled(i, rd) ==
    \E fut \in {[q \in Providers |-> RaceFuture(q, rd[q])]} :
    \E r \in {SelectOkPoll(inner[i], fut, <<>>)} :
        /\ diag' = Emit(PollLines(i, fut, r))
        /\ inner' = [inner EXCEPT ![i] = IF r.poll = "Ready" /\ r.out.tag = "Ok"
                                         THEN drop_remaining(r.inner) ELSE r.inner]
        /\ observed' = [observed EXCEPT ![i] = observed[i] \o r.seen]
        /\ IF r.poll = "Pending"
           THEN UNCHANGED <<task, pc, returned>>
           ELSE Finish(i, IF r.poll = "Panic" THEN Panic ELSE RaceResult(r.out))

(* The transport call of one attempt completes (its network I/O is done).  *)
(* It can do so for as long as the attempt's future exists.                *)
AttemptComplete(i, p, o) ==
    /\ op \in RaceOps
    /\ p \in SeqRange(inner[i])
    /\ ready[i][p] = Pending
    /\ ready' = [ready EXCEPT ![i][p] = o]
    /\ UNCHANGED <<args, pc, handles, task, inner, observed, results, returned, calls, diag>>

(* mutant: the race task is also woken by a timer, and gives up when it   *)
(* finds no attempt completed                                              *)
RacePollTimeout(i) ==
    /\ op \in RaceOps
    /\ task[i].st = "running"
    /\ IF \E p \in SeqRange(inner[i]) : ready[i][p] # Pending
       THEN RacePolled(i, ready[i])
       ELSE /\ Finish(i, Err(<<"All providers failed", "timed out">>))
            /\ UNCHANGED <<inner, observed, diag>>
    /\ UNCHANGED <<args, handles, ready, results, calls>>

(* The race task, woken by a completion, is polled. *)
RacePoll(i) ==
    /\ op \in RaceOps
    /\ task[i].st = "running"
    /\ \E p \in SeqRange(inner[i]) : ready[i][p] # Pending
    /\ RacePolled(i, ready[i])
    /\ UNCHANGED <<args, handles, ready, results, calls>>

(* A completion and the poll it wakes, as one step: attempt p's transport  *)
(* call completes with o and the race task is polled before any other      *)
(* attempt of this race completes.  The completion is consumed by that     *)
(* poll, so ready and the history observed are left alone.                 *)
RaceObserve(i, p, o) ==
    /\ op \in RaceOps
    /\ task[i].st = "running"
    /\ p \in SeqRange(inner[i])
    /\ LET fut == [q \in Providers |-> IF q = p THEN RaceFuture(p, o) ELSE Pending]
           r   == SelectOkPoll(inner[i], fut, <<>>)
       IN  /\ diag' = Emit(PollLines(i, fut, r))
           /\ inner' = [inner EXCEPT ![i] = IF r.out.tag = "Ok"
                                            THEN drop_remaining(r.inner) ELSE r.inner]
           /\ IF r.poll = "Pending"
              THEN UNCHANGED <<task, pc, returned>>
              ELSE Finish(i, IF r.poll = "Panic" THEN Panic ELSE RaceResult(r.out))
    /\ UNCHANGED <<args, handles, ready, observed, results, calls>>

(* ------------------------- the specifications -------------------------- *)
(* Spec: every operation, a batch of up to MaxHosts hostnames; a race is   *)
(* followed completion by completion.                                      *)
Next ==
    \/ Spawn
    \/ Collect
    \/ Return
    \/ \E i \in Units : UnitStart(i)
    \/ \E i \in Units, o \in TransportOutcomes : TransportReturn(i, o)
    \/ \E i \in Units : RaceStart(i)
    \/ \E i \in Units, p \in Providers, o \in TransportOutcomes : RaceObserve(i, p, o)

Spec == Init /\ [][Next]_vars

(* SpecRace: one race (resolve_race, or a batch race of one hostname),     *)
(* with the completion of a transport call and the poll of select_ok that  *)
(* observes it as separate steps.                                          *)
RaceInit ==
    InitOf(RaceOps, [1..1 -> Hostnames],
           Providers, Protocols, {to_type_code("A"), to_type_code("HTTPS")}, {TRUE})

RaceNext ==
    \/ Spawn
    \/ Collect
    \/ Return
    \/ \E i \in Units : RaceStart(i)
    \/ \E i \in Units, p \in Providers, o \in TransportOutcomes : AttemptComplete(i, p, o)
    \/ \E i \in Units : RacePoll(i)

SpecRace == RaceInit /\ [][RaceNext]_vars

(* SpecRaceFair: one race under fair scheduling.  The runtime polls the    *)
(* race task when it is created and each time a completion wakes it, and   *)
(* the caller of a batch race runs its loops: these steps are weakly fair. *)
(* Nothing is assumed of the transport calls of the attempts.              *)
RaceFairInit ==
    InitOf(RaceOps, [1..1 -> {"a.example"}],
           Providers, {"Dot"}, {to_type_code("A")}, {FALSE})

RaceFairness ==
    /\ WF_vars(Spawn)
    /\ WF_vars(Collect)
    /\ WF_vars(Return)
    /\ \A i \in 1..MaxHosts :
          /\ WF_vars(i \in Units /\ RaceStart(i))
          /\ WF_vars(i \in Units /\ RacePoll(i))

SpecRaceFair == RaceFairInit /\ [][RaceNext]_vars /\ RaceFairness

(* SpecOps: every operation with and without diagnostics; a batch of up to *)
(* MaxHosts hostnames, a race of one hostname followed poll by poll.       *)
OpsInit ==
    \/ InitOf(SingleOps \cup BatchOps, HostLists,
              {"Google"}, {"Dot"}, {to_type_code("TXT")}, BOOLEAN)
    \/ InitOf(RaceOps, [1..1 -> Hostnames],
              Providers, {"Doh"}, {to_type_code("SVCB")}, BOOLEAN)

OpsNext ==
    \/ Spawn
    \/ Collect
    \/ Return
    \/ \E i \in Units : UnitStart(i)
    \/ \E i \in Units, o \in TransportOutcomes : TransportReturn(i, o)
    \/ \E i \in Units : RaceStart(i)
    \/ \E i \in Units, p \in Providers, o \in TransportOutcomes : AttemptComplete(i, p, o)
    \/ \E i \in Units : RacePoll(i)

SpecOps == OpsInit /\ [][OpsNext]_vars

(* SpecHang: a batch in which the transport calls of the first hostname's  *)
(* unit may never complete.  The spawn loop never awaits, the runtime      *)
(* polls every spawned task, and the transport calls of the other units    *)
(* complete: these steps are weakly fair.  Nothing is assumed of the first *)
(* unit's transport calls, nor of the collect loop that waits for them.    *)
HangInit ==
    \/ InitOf(BatchOps, BatchLists,
              {"Quad9"}, {"Doh"}, {to_type_code("AAAA")}, {FALSE})
    \/ InitOf({"resolve_batch_race"}, SeqsUpTo({"a.example"}, MaxHosts),
              Providers, {"Doh"}, {to_type_code("AAAA")}, {FALSE})

HangFairness ==
    /\ WF_vars(Spawn)
    /\ \A i \in 1..MaxHosts :
          /\ WF_vars(i \in Units /\ UnitStart(i))
          /\ WF_vars(i \in Units /\ RaceStart(i))
    /\ \A i \in 2..MaxHosts :
          /\ WF_vars(i \in Units /\ \E o \in TransportOutcomes : TransportReturn(i, o))
          /\ WF_vars(i \in Units /\ \E p \in Providers, o \in TransportOutcomes :
                                        RaceObserve(i, p, o))

SpecHang == HangInit /\ [][Next]_vars /\ HangFairness

(* SpecBatch: the same batches with the caller scheduled too.  The spawn   *)
(* loop, the runtime's first poll of every spawned task, and the collect   *)
(* loop whose awaited handle is ready are weakly fair; nothing is assumed  *)
(* of any transport call.                                                  *)
BatchFairness ==
    /\ WF_vars(Spawn)
    /\ WF_vars(Collect)
    /\ WF_vars(Return)
    /\ \A i \in 1..MaxHosts :
          /\ WF_vars(i \in Units /\ UnitStart(i))
          /\ WF_vars(i \in Units /\ RaceStart(i))

SpecBatch == HangInit /\ [][Next]_vars /\ BatchFairness

(* --------------------------- the ECH parser ---------------------------- *)
(* ech.rs.  A buffer is a sequence of bytes; positions are counted from 0  *)
(* as in the code.  A read data[k] or a slice &data[a..b] outside the      *)
(* buffer panics: the function then yields Fault.                          *)
Fault == [tag |-> "Fault"]

Some(v) == [tag |-> "Some", val |-> v]

InB(d, k) == 0 <= k /\ k < Len(d)

SliceOk(d, a, b) == 0 <= a /\ a <= b /\ b <= Len(d)

At(d, k) == d[k + 1]

Slice(d, a, b) == SubSeq(d, a + 1, b)

(* u16::from_be_bytes([data[pos], data[pos + 1]]) *)
U16be(d, pos) == At(d, pos) * 256 + At(d, pos + 1)

(* STANDARD.encode: base64 with padding, as the sequence of the 6-bit      *)
(* values of its characters; 64 stands for the padding character '='       *)
RECURSIVE b64encode(_)
b64encode(b) ==
    CASE Len(b) = 0 -> <<>>
      [] Len(b) = 1 -> <<b[1] \div 4, (b[1] % 4) * 16, 64, 64>>
      [] Len(b) = 2 -> <<b[1] \div 4, (b[1] % 4) * 16 + b[2] \div 16, (b[2] % 16) * 4, 64>>
      [] OTHER      -> <<b[1] \div 4, (b[1] % 4) * 16 + b[2] \div 16,
                         (b[2] % 16) * 4 + b[3] \div 64, b[3] % 64>>
                       \o b64encode(SubSeq(b, 4, Len(b)))

(* String::from_utf8_lossy on bytes that are ASCII or can never occur in   *)
(* UTF-8 (0x80-0xC1, 0xF5-0xFF, taken alone): the characters as code       *)
(* points, U+FFFD for each byte that is not valid                          *)
from_utf8_lossy(b) == [k \in 1..Len(b) |-> IF b[k] < 128 THEN b[k] ELSE 65533]

(* mutant: the minimum length of the contents is not checked *)
parse_ech_config_contents_unchecked(version, d) ==
    IF version # 65037 /\ version # 65038 THEN None
    ELSE IF ~(InB(d, 0) /\ InB(d, 1) /\ InB(d, 2) /\ InB(d, 3) /\ InB(d, 4)) THEN Fault
    ELSE LET config_id == At(d, 0)
             kem_id    == U16be(d, 1)
             pk_len    == U16be(d, 3)
             p1        == 5 + pk_len
         IN  IF 5 + pk_len > Len(d) THEN None
             ELSE IF p1 + 2 > Len(d) THEN None
             ELSE IF ~(InB(d, p1) /\ InB(d, p1 + 1)) THEN Fault
             ELSE LET cs_len == U16be(d, p1)
                      p2     == p1 + 2 + cs_len
                      p3     == p2 + 1
                  IN  IF p2 > Len(d) THEN None
                      ELSE IF p2 >= Len(d) THEN None
                      ELSE IF p3 >= Len(d) THEN None
                      ELSE IF ~InB(d, p3) THEN Fault
                      ELSE LET name_len == At(d, p3)
                               p4       == p3 + 1
                           IN  IF p4 + name_len > Len(d) THEN None
                               ELSE IF ~SliceOk(d, p4, p4 + name_len) THEN Fault
                               ELSE Some([config_id   |-> config_id,
                                          kem_id      |-> kem_id,
                                          public_name |-> from_utf8_lossy(
                                                              Slice(d, p4, p4 + name_len))])

(* mutant: the contents are parsed whatever the version is *)
parse_ech_config_contents_any_version(version, d) ==
    IF Len(d) < 10 THEN None
    ELSE LET pk_len == U16be(d, 3)
             p1     == 5 + pk_len
         IN  IF p1 + 2 > Len(d) THEN None
             ELSE LET cs_len == U16be(d, p1)
                      p3     == p1 + 2 + cs_len + 1
                  IN  IF p3 >= Len(d) THEN None
                      ELSE IF p3 + 1 + At(d, p3) > Len(d) THEN None
                      ELSE Some([config_id   |-> At(d, 0),
                                 kem_id      |-> U16be(d, 1),
                                 public_name |-> from_utf8_lossy(
                                                     Slice(d, p3 + 1, p3 + 1 + At(d, p3)))])

(* parse_ech_config_contents (ech.rs 143-210): None, Some(EchConfigContents) *)
(* or Fault.  0xfe0d = 65037, 0xfe0e = 65038.                                *)
parse_ech_config_contents(version, d) ==
    IF version # 65037 /\ version # 65038 THEN None
    ELSE IF Len(d) < 10 THEN None
    ELSE IF ~(InB(d, 0) /\ InB(d, 1) /\ InB(d, 2) /\ InB(d, 3) /\ InB(d, 4)) THEN Fault
    ELSE LET config_id == At(d, 0)
             kem_id    == U16be(d, 1)
             pk_len    == U16be(d, 3)
             p1        == 5 + pk_len
         IN  IF 5 + pk_len > Len(d) THEN None
             ELSE IF p1 + 2 > Len(d) THEN None
             ELSE IF ~(InB(d, p1) /\ InB(d, p1 + 1)) THEN Fault
             ELSE LET cs_len == U16be(d, p1)
                      p2     == p1 + 2 + cs_len
                      p3     == p2 + 1
                  IN  IF p2 > Len(d) THEN None
                      ELSE IF p2 >= Len(d) THEN None
                      ELSE IF p3 >= Len(d) THEN None
                      ELSE IF ~InB(d, p3) THEN Fault
                      ELSE LET name_len == At(d, p3)
                               p4       == p3 + 1
                           IN  IF p4 + name_len > Len(d) THEN None
                               ELSE IF ~SliceOk(d, p4, p4 + name_len) THEN Fault
                               ELSE Some([config_id   |-> config_id,
                                          kem_id      |-> kem_id,
                                          public_name |-> from_utf8_lossy(
                                                              Slice(d, p4, p4 + name_len))])

(* the strings pushed to the list, by their format and what is put in them *)
RawEntry(d) == [kind |-> "raw", base64 |-> b64encode(d)]

(* mutant: config_id and kem_id are given to format! in the wrong order *)
RichEntrySwapped(version, info, b64) ==
    [kind |-> "rich", version |-> version, config_id |-> info.kem_id,
     kem_id |-> info.config_id, public_name |-> info.public_name, base64 |-> b64]

RichEntry(version, info, b64) ==
    [kind |-> "rich", version |-> version, config_id |-> info.config_id,
     kem_id |-> info.kem_id, public_name |-> info.public_name, base64 |-> b64]

PlainEntry(version, b64) == [kind |-> "plain", version |-> version, base64 |-> b64]

(* mutant: the loop ends at the first config whose contents are not parsed *)
RECURSIVE ListLoopStopOnFailure(_, _, _, _)
ListLoopStopOnFailure(d, list_len, pos, configs) ==
    IF ~(pos + 4 <= Len(d) /\ pos < 2 + list_len)
    THEN [fault |-> FALSE, val |-> configs]
    ELSE LET version    == U16be(d, pos)
             config_len == U16be(d, pos + 2)
             end        == pos + 4 + config_len
         IN  IF end > Len(d)
             THEN [fault |-> FALSE, val |-> configs]
             ELSE LET base64_config == b64encode(Slice(d, pos, end))
                      info == parse_ech_config_contents(version, Slice(d, pos + 4, end))
                  IN  IF info.tag = "Fault"
                      THEN [fault |-> TRUE, val |-> configs]
                      ELSE IF info.tag = "None"
                      THEN [fault |-> FALSE,
                            val |-> Append(configs, PlainEntry(version, base64_config))]
                      ELSE ListLoopStopOnFailure(d, list_len, end,
                               Append(configs, RichEntry(version, info.val, base64_config)))

(* the while loop of parse_ech_config_list (ech.rs 94-125) from position   *)
(* pos with the entries pushed so far; [fault, val]                        *)
RECURSIVE ListLoop(_, _, _, _)
ListLoop(d, list_len, pos, configs) ==
    IF ~(pos + 4 <= Len(d) /\ pos < 2 + list_len)
    THEN [fault |-> FALSE, val |-> configs]
    ELSE IF ~(InB(d, pos) /\ InB(d, pos + 1) /\ InB(d, pos + 2) /\ InB(d, pos + 3))
    THEN [fault |-> TRUE, val |-> configs]
    ELSE LET version    == U16be(d, pos)
             config_len == U16be(d, pos + 2)
             end        == pos + 4 + config_len
         IN  IF end > Len(d)
             THEN [fault |-> FALSE, val |-> configs]
             ELSE IF ~(SliceOk(d, pos, end) /\ SliceOk(d, pos + 4, end))
             THEN [fault |-> TRUE, val |-> configs]
             ELSE LET base64_config == b64encode(Slice(d, pos, end))
                      info == parse_ech_config_contents(version, Slice(d, pos + 4, end))
                  IN  IF info.tag = "Fault"
                      THEN [fault |-> TRUE, val |-> configs]
                      ELSE ListLoop(d, list_len, end,
                               Append(configs,
                                      IF info.tag = "Some"
                                      THEN RichEntry(version, info.val, base64_config)
                                      ELSE PlainEntry(version, base64_config)))

(* mutant: the declared length of the list is not compared with the value *)
parse_ech_config_list_no_length_check(d) ==
    IF Len(d) < 2 THEN None
    ELSE IF ~(InB(d, 0) /\ InB(d, 1)) THEN Fault
    ELSE LET list_len == U16be(d, 0)
             r == ListLoop(d, list_len, 2, <<>>)
         IN  IF r.fault THEN Fault
             ELSE IF r.val = <<>> THEN Some(<<RawEntry(d)>>)
             ELSE Some(r.val)

(* mutant: a value too short for a length is reported in base64 as well *)
parse_ech_config_list_raw_short(d) ==
    IF Len(d) < 2 THEN Some(<<RawEntry(d)>>)
    ELSE IF ~(InB(d, 0) /\ InB(d, 1)) THEN Fault
    ELSE LET list_len == U16be(d, 0)
         IN  IF Len(d) < 2 + list_len
             THEN Some(<<RawEntry(d)>>)
             ELSE LET r == ListLoop(d, list_len, 2, <<>>)
                  IN  IF r.fault THEN Fault
                      ELSE IF r.val = <<>> THEN Some(<<RawEntry(d)>>)
                      ELSE Some(r.val)

(* parse_ech_config_list (ech.rs 75-133) *)
parse_ech_config_list(d) ==
    IF Len(d) < 2 THEN None
    ELSE IF ~(InB(d, 0) /\ InB(d, 1)) THEN Fault
    ELSE LET list_len == U16be(d, 0)
         IN  IF Len(d) < 2 + list_len
             THEN Some(<<RawEntry(d)>>)
             ELSE LET r == ListLoop(d, list_len, 2, <<>>)
                  IN  IF r.fault THEN Fault
                      ELSE IF r.val = <<>> THEN Some(<<RawEntry(d)>>)
                      ELSE Some(r.val)

(* the loop over the labels of the target name (ech.rs 35-42); [fault, pos] *)
RECURSIVE SkipName(_, _)
SkipName(d, pos) ==
    IF ~(pos < Len(d)) THEN [fault |-> FALSE, pos |-> pos]
    ELSE IF ~InB(d, pos) THEN [fault |-> TRUE, pos |-> pos]
    ELSE IF At(d, pos) = 0 THEN [fault |-> FALSE, pos |-> pos + 1]
    ELSE SkipName(d, pos + 1 + At(d, pos))

(* const ECH_PARAM_KEY: u16 = 5 *)
ECH_PARAM_KEY == 5

(* mutant: the loop returns at the first parameter of key 5 that gave entries *)
RECURSIVE ParamLoopStopAtFirst(_, _, _)
ParamLoopStopAtFirst(d, pos, ech_configs) ==
    IF ~(pos + 4 <= Len(d))
    THEN [fault |-> FALSE, val |-> ech_configs]
    ELSE LET param_key == U16be(d, pos)
             param_len == U16be(d, pos + 2)
             p         == pos + 4
         IN  IF p + param_len > Len(d)
             THEN [fault |-> FALSE, val |-> ech_configs]
             ELSE IF param_key = ECH_PARAM_KEY
             THEN LET config_info == parse_ech_config_list(Slice(d, p, p + param_len))
                  IN  IF config_info.tag = "Fault"
                      THEN [fault |-> TRUE, val |-> ech_configs]
                      ELSE IF config_info.tag = "Some"
                      THEN [fault |-> FALSE, val |-> config_info.val]
                      ELSE ParamLoopStopAtFirst(d, p + param_len, ech_configs)
             ELSE ParamLoopStopAtFirst(d, p + param_len, ech_configs)

(* mutant: a parameter that overruns the buffer discards what was found *)
RECURSIVE ParamLoopDropOnTruncation(_, _, _)
ParamLoopDropOnTruncation(d, pos, ech_configs) ==
    IF ~(pos + 4 <= Len(d))
    THEN [fault |-> FALSE, val |-> ech_configs]
    ELSE LET param_key == U16be(d, pos)
             param_len == U16be(d, pos + 2)
             p         == pos + 4
         IN  IF p + param_len > Len(d)
             THEN [fault |-> FALSE, val |-> <<>>]
             ELSE IF param_key = ECH_PARAM_KEY
             THEN LET config_info == parse_ech_config_list(Slice(d, p, p + param_len))
                  IN  IF config_info.tag = "Fault"
                      THEN [fault |-> TRUE, val |-> ech_configs]
                      ELSE ParamLoopDropOnTruncation(d, p + param_len,
                               IF config_info.tag = "Some"
                               THEN ech_configs \o config_info.val
                               ELSE ech_configs)
             ELSE ParamLoopDropOnTruncation(d, p + param_len, ech_configs)

(* mutant: the key of the parameter is not looked at *)
RECURSIVE ParamLoopAnyKey(_, _, _)
ParamLoopAnyKey(d, pos, ech_configs) ==
    IF ~(pos + 4 <= Len(d))
    THEN [fault |-> FALSE, val |-> ech_configs]
    ELSE IF ~(InB(d, pos) /\ InB(d, pos + 1) /\ InB(d, pos + 2) /\ InB(d, pos + 3))
    THEN [fault |-> TRUE, val |-> ech_configs]
    ELSE LET param_len == U16be(d, pos + 2)
             p         == pos + 4
         IN  IF p + param_len > Len(d)
             THEN [fault |-> FALSE, val |-> ech_configs]
             ELSE IF ~SliceOk(d, p, p + param_len)
             THEN [fault |-> TRUE, val |-> ech_configs]
             ELSE LET config_info == parse_ech_config_list(Slice(d, p, p + param_len))
                  IN  IF config_info.tag = "Fault"
                      THEN [fault |-> TRUE, val |-> ech_configs]
                      ELSE ParamLoopAnyKey(d, p + param_len,
                               IF config_info.tag = "Some"
                               THEN ech_configs \o config_info.val
                               ELSE ech_configs)

(* the loop over the SvcParams (ech.rs 47-65); [fault, val] *)
RECURSIVE ParamLoop(_, _, _)
ParamLoop(d, pos, ech_configs) ==
    IF ~(pos + 4 <= Len(d))
    THEN [fault |-> FALSE, val |-> ech_configs]
    ELSE IF ~(InB(d, pos) /\ InB(d, pos + 1) /\ InB(d, pos + 2) /\ InB(d, pos + 3))
    THEN [fault |-> TRUE, val |-> ech_configs]
    ELSE LET param_key == U16be(d, pos)
             param_len == U16be(d, pos + 2)
             p         == pos + 4
         IN  IF p + param_len > Len(d)
             THEN [fault |-> FALSE, val |-> ech_configs]
             ELSE IF param_key = ECH_PARAM_KEY
             THEN IF ~SliceOk(d, p, p + param_len)
                  THEN [fault |-> TRUE, val |-> ech_configs]
                  ELSE LET config_info == parse_ech_config_list(Slice(d, p, p + param_len))
                       IN  IF config_info.tag = "Fault"
                           THEN [fault |-> TRUE, val |-> ech_configs]
                           ELSE ParamLoop(d, p + param_len,
                                    IF config_info.tag = "Some"
                                    THEN ech_configs \o config_info.val
                                    ELSE ech_configs)
             ELSE ParamLoop(d, p + param_len, ech_configs)

(* extract_ech_from_svcb (ech.rs 19-72) *)
extract_ech_from_svcb(d) ==
    IF Len(d) < 3 THEN None
    ELSE LET name == SkipName(d, 2)
         IN  IF name.fault THEN Fault
             ELSE LET r == ParamLoop(d, name.pos, <<>>)
                  IN  IF r.fault THEN Fault
                      ELSE IF r.val = <<>> THEN None
                      ELSE Some(r.val)

(* mutant: when nothing was extracted the buffer itself is reported *)
parse_ech_config_raw_fallback(raw_data) ==
    LET ech_configs == extract_ech_from_svcb(raw_data)
    IN  IF ech_configs.tag = "Fault" THEN Fault
        ELSE IF ech_configs.tag = "None" THEN Some(<<RawEntry(raw_data)>>)
        ELSE IF ech_configs.val = <<>> THEN None
        ELSE Some(ech_configs.val)

(* parse_ech_config (ech.rs 7-16) *)
parse_ech_config(raw_data) ==
    LET ech_configs == extract_ech_from_svcb(raw_data)
    IN  IF ech_configs.tag # "Some" THEN ech_configs
        ELSE IF ech_configs.val = <<>> THEN None
        ELSE Some(ech_configs.val)

(* ----------------------- inputs of the ECH parser ---------------------- *)
(* The wire format the parser reads (ech.rs 20-23, 95-98, 155-203), with   *)
(* each declared length either right or off by one, cut at every length.   *)
MaxFuzzLen == 4

Bytes16(n) == <<n \div 256, n % 256>>

Off(n) == {k \in {n - 1, n, n + 1} : k >= 0}

Prefixes(b) == {SubSeq(b, 1, k) : k \in 0..Len(b)}

(* ECHConfigContents: config_id, kem_id, public key, cipher suites,        *)
(* maximum_name_length, public_name, each vector behind its length         *)
EchContents(config_id, kem_id, pk_len, pk, cs_len, cs, name_len, name) ==
    <<config_id>> \o Bytes16(kem_id) \o Bytes16(pk_len) \o pk
        \o Bytes16(cs_len) \o cs \o <<64>> \o <<name_len>> \o name

EchConfig(version, config_len, contents) ==
    Bytes16(version) \o Bytes16(config_len) \o contents

SvcParam(key, param_len, value) == Bytes16(key) \o Bytes16(param_len) \o value

(* an HTTPS record: priority 1, target name, SvcParams *)
SvcbRecord(target, params) == <<0, 1>> \o target \o params

FuzzContents(config_id, kem_id) ==
    UNION {Prefixes(EchContents(config_id, kem_id, pl, pk, cl, cs, nl, name)) :
              pk \in {<<>>, <<9>>}, pl \in {0, 1, 2},
              cs \in {<<>>, <<0, 1>>}, cl \in {0, 2, 3},
              name \in {<<>>, <<97>>, <<97, 255>>, <<97, 98>>}, nl \in {0, 1, 2, 3}}

TargetNames == {<<0>>, <<1, 97, 0>>, <<3, 97>>}

(* a record around contents c whose config declares n bytes of contents *)
ContentsRecord(c, n) ==
    SvcbRecord(<<0>>, SvcParam(5, Len(c) + 6, Bytes16(Len(c) + 4) \o EchConfig(65037, n, c)))

(* every contents, framed exactly or with the config declaring one byte more *)
ContentsInputs(config_id, kem_id) ==
    UNION {{ContentsRecord(c, n) : n \in {Len(c), Len(c) + 1}} :
           c \in FuzzContents(config_id, kem_id)}

(* one or two configs of a known or unknown version, declaring their       *)
(* length exactly or one short                                             *)
EnvelopeConfigs(config_id, kem_id) ==
    UNION {{EchConfig(v, n, c) \o more :
                v \in {65037, 65038, 1},
                n \in {Len(c) - 1, Len(c)},
                more \in {<<>>, EchConfig(1, 0, <<>>)}} :
           c \in {EchContents(config_id, kem_id, 1, <<9>>, 2, <<0, 1>>, 1, <<97>>),
                  <<config_id>> \o Bytes16(kem_id)}}

(* records around them with every length of the envelope right or off by   *)
(* one, other parameters and target names, cut at every length             *)
EnvelopeInputs(config_id, kem_id) ==
    UNION {UNION {Prefixes(SvcbRecord(target,
                               pre \o SvcParam(key, pn, Bytes16(ln) \o cfgs))) :
                     target \in TargetNames,
                     pre \in {<<>>, SvcParam(1, 1, <<7>>)},
                     key \in {5, 6},
                     ln \in Off(Len(cfgs)),
                     pn \in Off(Len(cfgs) + 2)} :
           cfgs \in EnvelopeConfigs(config_id, kem_id)}

(* every buffer of up to MaxFuzzLen bytes over a few values *)
ShortInputs(n) == SeqsUpTo({0, 1, 5, 255}, n)

(* the number of configs of a list *)
MaxConfigs == 3

(* configs of a known version whose contents hold their whole layout *)
GoodConfigs ==
    {EchConfig(65037, 13, EchContents(7, 32, 1, <<9>>, 2, <<0, 1>>, 1, <<97>>)),
     EchConfig(65038, 11, EchContents(8, 16, 0, <<>>, 0, <<>>, 2, <<98, 99>>))}

(* configs of a known version in whose contents the public key, the cipher *)
(* suites or the public name is declared longer than the contents          *)
OverrunConfigs ==
    {EchConfig(65037, 13, EchContents(7, 32, 9, <<9>>, 2, <<0, 1>>, 1, <<97>>)),
     EchConfig(65037, 13, EchContents(7, 32, 1, <<9>>, 8, <<0, 1>>, 1, <<97>>)),
     EchConfig(65038, 13, EchContents(7, 32, 1, <<9>>, 2, <<0, 1>>, 2, <<97>>))}

(* configs of another version, around the same contents and around nothing *)
UnknownVersionConfigs ==
    {EchConfig(65039, 13, EchContents(7, 32, 1, <<9>>, 2, <<0, 1>>, 1, <<97>>)),
     EchConfig(1, 0, <<>>)}

SampleConfigs == GoodConfigs \cup OverrunConfigs \cup UnknownVersionConfigs

RECURSIVE Flatten(_)
Flatten(ss) == IF ss = <<>> THEN <<>> ELSE Head(ss) \o Flatten(Tail(ss))

(* the value of an ech parameter: an ECHConfigList of the configs cs *)
ListValue(cs) == Bytes16(Len(Flatten(cs))) \o Flatten(cs)

(* a record whose only parameter is that list *)
ListRecord(cs) == SvcbRecord(<<0>>, SvcParam(5, Len(ListValue(cs)), ListValue(cs)))

ConfigLists(n) == SeqsUpTo(SampleConfigs, n)

ListInputs(n) == {ListRecord(cs) : cs \in ConfigLists(n)}

(* what may follow the last whole parameter of a record that was cut or    *)
(* whose last parameter declares more than is left: less than a header, a  *)
(* header alone, a header and a part of the value                          *)
TruncatedParams ==
    {<<0>>, <<0, 5>>, <<0, 5, 0>>,
     <<0, 5, 0, 1>>, <<0, 6, 0, 1>>,
     SvcParam(5, 20, SubSeq(ListValue(<<EchConfig(1, 0, <<>>)>>), 1, 6)),
     SvcParam(5, 7, ListValue(<<EchConfig(1, 0, <<>>)>>)),
     SvcParam(6, 200, SvcParam(5, 6, ListValue(<<EchConfig(1, 0, <<>>)>>)))}

(* records of whole parameters, with key 5 or not, before such a rest *)
TruncatedInputs ==
    {SvcbRecord(<<0>>, pre \o SvcParam(k, Len(ListValue(<<c>>)), ListValue(<<c>>)) \o rest) :
        pre \in {<<>>, SvcParam(1, 1, <<7>>)},
        k \in {5, 6},
        c \in GoodConfigs \cup {EchConfig(1, 0, <<>>)},
        rest \in TruncatedParams}

(* records whose ech parameter has a value too short to hold the length   *)
(* of a list                                                               *)
ShortValueInputs ==
    {SvcbRecord(<<0>>, pre \o SvcParam(5, Len(v), v) \o post) :
        pre \in {<<>>, SvcParam(1, 1, <<7>>)},
        v \in {<<>>, <<0>>, <<5>>},
        post \in {<<>>, SvcParam(6, 0, <<>>)}}

(* whole records without a parameter of key 5: other keys, values that     *)
(* hold the bytes of an ech parameter, no parameter at all                 *)
OtherParams ==
    {SvcParam(1, 1, <<7>>), SvcParam(6, 0, <<>>), SvcParam(4, 2, <<0, 5>>),
     SvcParam(1285, 6, ListValue(<<EchConfig(1, 0, <<>>)>>)),
     SvcParam(6, 10, SvcParam(5, 6, ListValue(<<EchConfig(1, 0, <<>>)>>)))}

NoEchInputs(n) ==
    {SvcbRecord(t, Flatten(ps)) : t \in {<<0>>, <<1, 97, 0>>, <<1, 5, 1, 5, 0>>},
                                  ps \in SeqsUpTo(OtherParams, n)}

(* the number of parameters of a record *)
MaxParams == 3

(* parameters of key 5 holding one config, holding two, and with a value   *)
(* too short for a list; parameters of other keys, one of them holding the *)
(* bytes of a list                                                         *)
MixedParams ==
    {SvcParam(5, 19, ListValue(<<EchConfig(65037, 13,
                         EchContents(7, 32, 1, <<9>>, 2, <<0, 1>>, 1, <<97>>))>>)),
     SvcParam(5, 21, ListValue(<<EchConfig(1, 0, <<>>),
                                 EchConfig(65038, 11,
                         EchContents(8, 16, 0, <<>>, 0, <<>>, 2, <<98, 99>>))>>)),
     SvcParam(5, 1, <<0>>),
     SvcParam(1, 1, <<7>>),
     SvcParam(6, 6, ListValue(<<EchConfig(1, 0, <<>>)>>))}

(* every record of up to n of these parameters, in every order *)
MultiParamInputs(n) ==
    {SvcbRecord(<<0>>, Flatten(ps)) : ps \in SeqsUpTo(MixedParams, n)}

(* the buffers given to the parser, around config_id 7 and kem_id 0x0020 *)
EchInputs(n) ==
    ContentsInputs(7, 32) \cup EnvelopeInputs(7, 32) \cup ShortInputs(n)
        \cup ListInputs(MaxConfigs) \cup TruncatedInputs \cup NoEchInputs(MaxConfigs)
        \cup ShortValueInputs \cup MultiParamInputs(MaxParams)

(* the values given to parse_ech_config_list: lists of configs declaring   *)
(* their length exactly, one off or as zero, cut at every length up to the *)
(* first config, lists filled by one config that lost its last byte, and   *)
(* every short value                                                       *)
EchListValues(n) ==
    UNION {{Bytes16(ln) \o Flatten(cs) : ln \in Off(Len(Flatten(cs))) \cup {0}} :
           cs \in ConfigLists(2)}
      \cup UNION {Prefixes(ListValue(<<c>>)) : c \in SampleConfigs}
      \cup {ListValue(<<SubSeq(c, 1, Len(c) - 1)>>) : c \in SampleConfigs}
      \cup ShortInputs(n)

EchOps == {"parse_ech_config", "parse_ech_config_list"}

(* -------------------- the transports' answer handling ------------------ *)
(* parse_dns_response and extract_raw_rdata, the same in doh.rs, dot.rs    *)
(* and doh3.rs.  The body received is None when Message::from_vec rejects  *)
(* it, otherwise a message with its answer section: a sequence of records  *)
(* [rtype, rdata, encodes], where rdata is "none" when answer.data() is    *)
(* None and encodes tells whether rdata.to_bytes() returns Ok.             *)
MaxAnswers == 3

Answers ==
    [rtype : {"CNAME", "HTTPS"}, rdata : {"none"}, encodes : {TRUE}]
    \cup [rtype : {"CNAME", "HTTPS"}, rdata : {"d1", "d2"}, encodes : BOOLEAN]

AnswerSections(n) == SeqsUpTo(Answers, n)

Message(answers) == [tag |-> "Message", answers |-> answers]

Bodies(n) == {None} \cup {Message(a) : a \in AnswerSections(n)}

(* format!("{}", d): the text of a record's data *)
fmt_rdata(d) == <<"text", d>>

(* rdata.to_bytes(): the bytes of a record's data *)
to_bytes(d) == <<"bytes", d>>

(* the loop of parse_dns_response: the texts of the answers that have data *)
RECURSIVE AnswerTexts(_)
AnswerTexts(answers) ==
    IF answers = <<>> THEN <<>>
    ELSE (IF Head(answers).rdata # "none" THEN <<fmt_rdata(Head(answers).rdata)>> ELSE <<>>)
         \o AnswerTexts(Tail(answers))

(* mutant: the list is returned as it is, empty or not *)
parse_dns_response_empty_ok(body) ==
    IF body = None THEN Err(<<"Failed to parse DNS response", "e1">>)
    ELSE Ok(AnswerTexts(body.answers))

(* parse_dns_response (doh.rs 230-247) *)
parse_dns_response(body) ==
    IF body = None THEN Err(<<"Failed to parse DNS response", "e1">>)
    ELSE IF AnswerTexts(body.answers) = <<>> THEN Err(<<"No records found">>)
    ELSE Ok(AnswerTexts(body.answers))

(* mutant: the loop does not return, the last answer that encodes is kept *)
RECURSIVE FirstRdataLast(_)
FirstRdataLast(answers) ==
    IF answers = <<>> THEN Err(<<"No RDATA found in response">>)
    ELSE LET a == answers[Len(answers)]
         IN  IF a.rdata # "none" /\ a.encodes
             THEN Ok(to_bytes(a.rdata))
             ELSE FirstRdataLast(SubSeq(answers, 1, Len(answers) - 1))

(* the loop of extract_raw_rdata: it returns at the first answer that has  *)
(* data whose to_bytes() is Ok; the bail! after the loop                   *)
RECURSIVE FirstRdata(_)
FirstRdata(answers) ==
    IF answers = <<>> THEN Err(<<"No RDATA found in response">>)
    ELSE IF Head(answers).rdata # "none" /\ Head(answers).encodes
    THEN Ok(to_bytes(Head(answers).rdata))
    ELSE FirstRdata(Tail(answers))

(* extract_raw_rdata (doh.rs 249-262) *)
extract_raw_rdata(body) ==
    IF body = None THEN Err(<<"Failed to parse DNS response", "e1">>)
    ELSE FirstRdata(body.answers)

DnsOps == {"parse_dns_response", "extract_raw_rdata"}

(* ------------------------ the library functions ------------------------ *)
(* SpecLib: one call of a pure function of the library on an argument of   *)
(* its type: a record type, a 16-bit code, a provider.                     *)
LibOps == {"to_type_code", "from_code", "from_provider", "Provider::all"}

LibInputs(o) ==
    CASE o = "parse_ech_config" -> EchInputs(MaxFuzzLen)
      [] o = "parse_ech_config_list" -> EchListValues(MaxFuzzLen)
      [] o \in DnsOps -> Bodies(MaxAnswers)
      [] o = "to_type_code"  -> RecordTypes
      [] o = "from_code"     -> U16
      [] o = "from_provider" -> ConfiguredProviders
      [] o = "Provider::all" -> {None}

LibApply(o, x) ==
    CASE o = "parse_ech_config" -> parse_ech_config(x)
      [] o = "parse_ech_config_list" -> parse_ech_config_list(x)
      [] o = "parse_dns_response" -> parse_dns_response(x)
      [] o = "extract_raw_rdata" -> extract_raw_rdata(x)
      [] o = "to_type_code"  -> to_type_code(x)
      [] o = "from_code"     -> from_code(x)
      [] o = "from_provider" -> from_provider(x)
      [] o = "Provider::all" -> ProviderAll

LibInitOf(opset) ==
    /\ op \in opset
    /\ input \in LibInputs(op)
    /\ hostnames = <<>>
    /\ provider = "-"
    /\ protocol = "-"
    /\ type_code = 0
    /\ verbose = FALSE
    /\ cli = None
    /\ pc = "run"
    /\ handles = 0
    /\ task = <<>>
    /\ inner = <<>>
    /\ ready = <<>>
    /\ observed = <<>>
    /\ results = <<>>
    /\ returned = None
    /\ calls = EmptyBag
    /\ diag = {}

(* the function is called and returns *)
LibCall ==
    /\ pc = "run"
    /\ op \in LibOps \cup EchOps \cup DnsOps
    /\ returned' = LibApply(op, input)
    /\ pc' = "done"
    /\ UNCHANGED <<args, handles, task, inner, ready, observed, results, calls, diag>>

LibInit == LibInitOf(LibOps)

LibNext == LibCall

SpecLib == LibInit /\ [][LibNext]_vars

(* SpecEch: one call of parse_ech_config on a buffer, or of                *)
(* parse_ech_config_list on the value of a parameter                       *)
EchInit == LibInitOf(EchOps)

SpecEch == EchInit /\ [][LibNext]_vars

(* SpecDns: one call of parse_dns_response or extract_raw_rdata on a body *)
DnsInit == LibInitOf(DnsOps)

SpecDns == DnsInit /\ [][LibNext]_vars

(* ------------------------------- the CLI ------------------------------- *)
(* main of bin/main.rs (108-335; main.rs 132-357 is the same flow).  With  *)
(* --race it calls the batch races once, otherwise it loops over the       *)
(* providers and calls the batches for each.  cli holds the arguments,     *)
(* the position k of the loop, the call the flow is at ("ech": the raw     *)
(* batch made under --ech, "records": the decoded batch), the log of the   *)
(* calls made and returned, and the indices of the hostnames to whose raw  *)
(* answer parse_ech_config was applied since the last call returned.  What *)
(* is printed is not modelled.                                             *)
CliProviders == IF cli.all_providers THEN ProviderAll ELSE <<cli.provider>>

(* the number of times the calls are made: once under --race, once per     *)
(* provider otherwise                                                      *)
CliRounds == IF cli.race THEN 1 ELSE Len(CliProviders)

CliFirstStage(ech) == IF ech THEN "ech" ELSE "records"

(* the operation called at a stage *)
CliOp(race, stage) ==
    CASE race /\ stage = "ech"      -> "resolve_batch_race_raw"
      [] race /\ stage = "records"  -> "resolve_batch_race"
      [] ~race /\ stage = "ech"     -> "resolve_batch_raw"
      [] ~race /\ stage = "records" -> "resolve_batch"

(* mutant: every hostname's result is handed to the parser *)
EchParsedAll(stage, res) == IF stage = "ech" THEN DOMAIN res ELSE {}

(* for (hostname, result) in hostnames.zip(ech_results): parse_ech_config  *)
(* is called in the Ok arm of the match; the loop over the decoded results *)
(* does not call it                                                        *)
EchParsed(stage, res) ==
    IF stage = "ech" THEN {i \in DOMAIN res : res[i].tag = "Ok"} ELSE {}

CliInit ==
    /\ cli \in [race : BOOLEAN, all_providers : BOOLEAN, provider : {"Quad9"}, ech : BOOLEAN,
                record_type : {"A", "HTTPS"}, k : {1}, stage : {"ech", "records"},
                log : {<<>>}, parsed : {{}}]
    /\ cli.stage = CliFirstStage(cli.ech)
    /\ cli.race => (~cli.all_providers /\ cli.record_type = "A")
    /\ op = "-"
    /\ hostnames \in IF cli.race THEN SeqsUpTo({"a.example"}, MaxHosts) ELSE BatchLists
    /\ provider = "-"
    /\ protocol \in {"Doh"}
    /\ type_code = 0
    /\ verbose \in IF cli.race THEN {FALSE} ELSE BOOLEAN
    /\ input = None
    /\ pc = "main"
    /\ handles = 0
    /\ task = [i \in Units |-> [st |-> "none", out |-> None]]
    /\ inner = [i \in Units |-> <<>>]
    /\ ready = [i \in Units |-> [p \in Providers |-> None]]
    /\ observed = [i \in Units |-> <<>>]
    /\ results = <<>>
    /\ returned = None
    /\ calls = EmptyBag
    /\ diag = {}

(* the flow reaches a call: under args.ech the raw batch with type code    *)
(* 65, then the decoded batch with the record type of the arguments        *)
CliCall ==
    /\ cli # None
    /\ pc = "main"
    /\ cli.k <= CliRounds
    /\ op' = CliOp(cli.race, cli.stage)
    /\ provider' = IF cli.race THEN "-" ELSE CliProviders[cli.k]
    /\ type_code' = IF cli.stage = "ech" THEN 65 ELSE to_type_code(cli.record_type)
    /\ cli' = [cli EXCEPT !.log = Append(@, [ev |-> "call", stage |-> cli.stage,
                                             provider |-> provider']),
                          !.parsed = {}]
    /\ pc' = "run"
    /\ handles' = 0
    /\ task' = [i \in Units |-> [st |-> "none", out |-> None]]
    /\ inner' = [i \in Units |-> <<>>]
    /\ ready' = [i \in Units |-> [p \in Providers |-> None]]
    /\ observed' = [i \in Units |-> <<>>]
    /\ results' = <<>>
    /\ returned' = None
    /\ UNCHANGED <<hostnames, protocol, verbose, input, calls, diag>>

(* .await of that call is over: its results are printed, the raw ones      *)
(* through parse_ech_config, and the flow goes on, to the decoded batch    *)
(* after the raw one, to the next provider after it                        *)
CliAwaited ==
    /\ cli # None
    /\ pc = "done"
    /\ cli' = [cli EXCEPT !.log = Append(@, [ev |-> "returned", stage |-> cli.stage,
                                             provider |-> provider]),
                          !.parsed = EchParsed(cli.stage, returned.val),
                          !.stage = IF cli.stage = "ech" THEN "records"
                                    ELSE CliFirstStage(cli.ech),
                          !.k = IF cli.stage = "ech" THEN @ ELSE @ + 1]
    /\ pc' = "main"
    /\ UNCHANGED <<op, hostnames, provider, protocol, type_code, verbose, input, handles,
                   task, inner, ready, observed, results, returned, calls, diag>>

(* the calls are over: Ok(()) *)
CliExit ==
    /\ cli # None
    /\ pc = "main"
    /\ cli.k > CliRounds
    /\ pc' = "exit"
    /\ UNCHANGED <<args, handles, task, inner, ready, observed, results, returned, calls, diag>>

CliNext ==
    \/ CliCall
    \/ CliAwaited
    \/ CliExit
    \/ Spawn
    \/ Collect
    \/ Return
    \/ \E i \in Units : UnitStart(i)
    \/ \E i \in Units, o \in TransportOutcomes : TransportReturn(i, o)
    \/ \E i \in Units : RaceStart(i)
    \/ \E i \in Units, p \in Providers, o \in TransportOutcomes : RaceObserve(i, p, o)

SpecCli == CliInit /\ [][CliNext]_vars

(* ------------------------------ claims --------------------------------- *)
Completed(i) == task[i].st \in {"finished", "panicked"}

TaskFailed == Err(<<"Task failed", "panicked">>)

(* C1: resolve_batch and resolve_batch_raw return a list as long as the    *)
(* input whose element i is the outcome of the transport call made by the  *)
(* unit of hostnames[i] (or "Task failed" if that unit crashed), whatever  *)
(* the order in which the units completed, duplicates included; each       *)
(* hostname was queried once per occurrence in the list.                   *)
C1_BatchOrder ==
    op \in BatchOps =>
        /\ \A i \in 1..Len(results) :
              /\ Completed(i)
              /\ task[i].st = "finished" => results[i] = ready[i][provider]
              /\ task[i].st = "panicked" => results[i] = TaskFailed
        /\ pc = "done" =>
              /\ returned = [tag |-> "Vec", val |-> results]
              /\ Len(returned.val) = Len(hostnames)
              /\ \A h \in Hostnames :
                    CopiesIn(Invocation(h, provider), calls)
                        = Cardinality({i \in Units : hostnames[i] = h})

C1_Witness ==
    /\ op \in BatchOps
    /\ pc = "done"
    /\ Len(hostnames) = 2
    /\ hostnames[1] = hostnames[2]
    /\ returned.val[1].tag = "Err"
    /\ returned.val[2].tag = "Ok"

(* C2: resolve_batch_race and resolve_batch_race_raw return a list as long *)
(* as the input whose element i is the result of the race run for          *)
(* hostnames[i]: the race of unit i queried every provider for             *)
(* hostnames[i], and its result sits at index i whichever race ended first.*)
C2_RaceBatchOrder ==
    op \in RaceBatchOps =>
        /\ \A i \in 1..Len(results) :
              /\ Completed(i)
              /\ task[i].st = "finished" => results[i] = task[i].out
              /\ task[i].st = "panicked" => results[i] = TaskFailed
        /\ pc = "done" =>
              /\ returned = [tag |-> "Vec", val |-> results]
              /\ Len(returned.val) = Len(hostnames)
              /\ \A h \in Hostnames, p \in Providers :
                    CopiesIn(Invocation(h, p), calls)
                        = Cardinality({i \in Units : hostnames[i] = h})

C2_Witness ==
    /\ op \in RaceBatchOps
    /\ pc = "done"
    /\ Len(hostnames) = 2
    /\ hostnames[1] # hostnames[2]
    /\ returned.val[1].tag = "Err"
    /\ returned.val[2].tag = "Ok"
    /\ returned.val[2].val.provider = "Quad9"

(* C3: in every batch operation a step of one unit (its failure included)  *)
(* leaves every other unit as it was, a completed unit keeps its output,   *)
(* a collected result is that of its own unit and never changes, and the   *)
(* batch is never aborted.                                                 *)
C3_Step ==
    op \in SpawningOps =>
        \A i \in Units :
           /\ (\E j \in Units \ {i} : task'[j] # task[j])
                 => (task'[i] = task[i] /\ inner'[i] = inner[i])
           /\ Completed(i) => task'[i] = task[i]
           /\ i <= Len(results)
                 => /\ i <= Len(results')
                    /\ results'[i] = results[i]
                    /\ task[i].out.tag \in {"Ok", "Err"} => results[i] = task[i].out

C3_Isolation ==
    /\ [](op \in SpawningOps => pc # "panicked")
    /\ [][C3_Step]_vars

C3_Witness ==
    /\ op \in SpawningOps
    /\ pc = "done"
    /\ Len(hostnames) = 2
    /\ task[1].out.tag = "Err"
    /\ task[2].out.tag = "Ok"
    /\ returned.val[2] = task[2].out

(* C4: when the task of a unit crashes, the batch is not aborted and can   *)
(* still collect and return; the result at that index is the error         *)
(* "Task failed: ..." and the results at the other indices are the outputs *)
(* of their own units.                                                     *)
C4_CrashIsolated ==
    op \in SpawningOps =>
        /\ pc # "panicked"
        /\ \A i \in 1..Len(results) :
              IF task[i].st = "panicked"
              THEN results[i] = TaskFailed
              ELSE results[i] = task[i].out /\ results[i] # TaskFailed
        /\ (pc = "run" /\ handles = Len(hostnames) /\ \A i \in Units : Completed(i))
              => ENABLED (Collect \/ Return)
        /\ pc = "done" => Len(returned.val) = Len(hostnames)

C4_Witness ==
    /\ op \in SpawningOps
    /\ pc = "done"
    /\ Len(hostnames) = 2
    /\ task[1].st = "panicked"
    /\ returned.val[1] = TaskFailed
    /\ returned.val[2].tag = "Ok"

(* the race of unit i has returned its winner / its error *)
RaceWon(i) == task[i].st = "finished" /\ task[i].out.tag = "Ok"

RaceLost(i) == task[i].st = "finished" /\ task[i].out.tag = "Err"

LastObserved(i) == observed[i][Len(observed[i])]

(* C5: when a race returns success (records, provider), the transport call *)
(* of that provider's attempt completed with Ok(records), its completion   *)
(* is the one select_ok observed last, and everything observed before it   *)
(* was a failure: no other success was observed earlier, and the earlier   *)
(* failures did not stop it from winning.                                  *)
C5_FirstSuccessWins ==
    \A i \in Units :
        RaceWon(i) =>
            LET v == task[i].out.val
            IN  /\ observed[i] # <<>>
                /\ LastObserved(i) = v.provider
                /\ ready[i][v.provider] = Ok(v.data)
                /\ \A k \in 1..(Len(observed[i]) - 1) : ready[i][observed[i][k]].tag = "Err"
                /\ op = "resolve_race" => (pc = "done" /\ returned = task[i].out)

C5_Witness ==
    /\ op = "resolve_race"
    /\ pc = "done"
    /\ returned.tag = "Ok"
    /\ returned.val.provider = "Quad9"
    /\ Len(observed[1]) = 3
    /\ observed[1][1] = "NextDns"
    /\ ready[1]["Cloudflare"] = Pending

(* C6: a race returns an error only when every provider's attempt has been *)
(* observed to fail, never while an attempt is in flight or has completed  *)
(* with success; once a success has been observed the race has returned    *)
(* success.                                                                *)
C6_NoFalseAllFailed ==
    \A i \in Units :
        /\ RaceLost(i) =>
              /\ \A p \in Providers : ready[i][p].tag = "Err"
              /\ SeqRange(observed[i]) = Providers
              /\ inner[i] = <<>>
        /\ (\E p \in SeqRange(observed[i]) : ready[i][p].tag = "Ok") => RaceWon(i)

C6_Witness ==
    /\ op = "resolve_batch_race"
    /\ pc = "done"
    /\ returned.val[1].tag = "Err"
    /\ \A p \in Providers : ready[1][p].tag = "Err"

(* C7: when every attempt failed the race returns one error, "All          *)
(* providers failed: <d>", where d is the description of the failure that  *)
(* select_ok observed last; no earlier description is part of it.          *)
C7_LastFailureReported ==
    \A i \in Units :
        RaceLost(i) =>
            /\ observed[i] # <<>>
            /\ task[i].out = Err(<<"All providers failed">> \o ready[i][LastObserved(i)].msg)
            /\ Len(task[i].out.msg) = 2

C7_Witness ==
    /\ op = "resolve_batch_race_raw"
    /\ RaceLost(1)
    /\ LastObserved(1) = "Google"
    /\ ready[1]["Google"] = Err(<<"e2">>)
    /\ \A p \in Providers \ {"Google"} : ready[1][p] = Err(<<"e1">>)

(* C8: when a race returns its winner the futures of the other attempts    *)
(* are dropped at once, whether or not their transport calls had           *)
(* completed; from then on no attempt of that race makes a step, nothing   *)
(* more is observed and the result of the race does not change.            *)
C8_Step ==
    \A i \in Units :
        /\ (op \in RaceOps /\ task'[i].st = "finished" /\ task'[i].out.tag = "Ok")
              => inner'[i] = <<>>
        /\ RaceWon(i) =>
              /\ ready'[i] = ready[i]
              /\ observed'[i] = observed[i]
              /\ task'[i] = task[i]
              /\ calls' = calls

C8_LosersAbandoned == [][C8_Step]_vars

C8_Witness ==
    /\ op = "resolve_race"
    /\ pc = "done"
    /\ RaceWon(1)
    /\ \E p \in Providers : ready[1][p] = Pending
    /\ \E p \in Providers : ready[1][p].tag = "Err" /\ p \notin SeqRange(observed[1])

(* C9: a race makes exactly one transport invocation for each provider of  *)
(* Provider::all(), each with the race's hostname, the transport of the    *)
(* race's protocol and the race's type code, and none before it starts.    *)
C9_OneAttemptPerProvider ==
    op \in RaceOps =>
        \A i \in Units :
            IF task[i].st \in {"none", "created"}
            THEN calls = EmptyBag
            ELSE /\ BagCardinality(calls) = Len(ProviderAll)
                 /\ \A p \in {"Cloudflare", "Google", "Quad9", "NextDns"} :
                       CopiesIn([transport |-> CASE protocol = "Doh"  -> "DohResolver"
                                                 [] protocol = "Dot"  -> "DotResolver"
                                                 [] protocol = "Doh3" -> "Doh3Resolver",
                                 method    |-> IF op = "resolve_batch_race_raw"
                                               THEN "resolve_raw" ELSE "resolve",
                                 hostname  |-> hostnames[i],
                                 config    |-> from_provider(p),
                                 type_code |-> type_code,
                                 verbose   |-> verbose], calls) = 1

C9_Witness ==
    /\ op = "resolve_race"
    /\ pc = "done"
    /\ protocol = "Dot"
    /\ hostnames[1] = "b.example"
    /\ BagCardinality(calls) = Len(ProviderAll)

(* C10: resolve and resolve_raw invoke the transport of the protocol once, *)
(* for the given hostname, provider and type code, and return what that    *)
(* call completed with: a failure is returned as it is, with no second     *)
(* invocation.                                                             *)
C10_ResolveOnce ==
    op \in SingleOps =>
        /\ task[1].st = "created" => calls = EmptyBag
        /\ task[1].st # "created" =>
              calls = SetToBag({[transport |-> CASE protocol = "Doh"  -> "DohResolver"
                                                 [] protocol = "Dot"  -> "DotResolver"
                                                 [] protocol = "Doh3" -> "Doh3Resolver",
                                 method    |-> op,
                                 hostname  |-> hostnames[1],
                                 config    |-> from_provider(provider),
                                 type_code |-> type_code,
                                 verbose   |-> verbose]})
        /\ pc = "done" => (returned = ready[1][provider] /\ returned.tag \in {"Ok", "Err"})
        /\ pc = "panicked" => ready[1][provider] = Panic

C10_Witness ==
    /\ op = "resolve_raw"
    /\ pc = "done"
    /\ protocol = "Doh3"
    /\ provider = "NextDns"
    /\ returned = Err(<<"e2">>)
    /\ BagCardinality(calls) = 1

(* the transport invocations made so far, without the verbose flag each carries *)
Strip(c) == [transport |-> c.transport, method |-> c.method, hostname |-> c.hostname,
             config |-> c.config, type_code |-> c.type_code]

StrippedCalls ==
    [e \in {Strip(c) : c \in DOMAIN calls} |->
        calls[CHOOSE c \in DOMAIN calls : Strip(c) = e]]

Started == {i \in Units : task[i].st \in {"running", "finished", "panicked"}}

(* what the operation must have invoked and produced, written from its     *)
(* arguments other than verbose, the outcomes of the transport calls and   *)
(* the order in which the race saw them                                    *)
ExpectedCalls ==
    [e \in {[transport |-> CASE protocol = "Doh"  -> "DohResolver"
                             [] protocol = "Dot"  -> "DotResolver"
                             [] protocol = "Doh3" -> "Doh3Resolver",
             method    |-> IF op \in {"resolve_raw", "resolve_batch_raw", "resolve_batch_race_raw"}
                           THEN "resolve_raw" ELSE "resolve",
             hostname  |-> hostnames[i],
             config    |-> from_provider(p),
             type_code |-> type_code] :
                i \in Started, p \in IF op \in RaceOps THEN Providers ELSE {provider}} |->
        Cardinality({i \in Started : hostnames[i] = e.hostname})]

ExpectedOut(i) ==
    IF op \in RaceOps
    THEN LET l == LastObserved(i)
         IN  IF ready[i][l].tag = "Ok"
             THEN Ok([data |-> ready[i][l].val, provider |-> l])
             ELSE Err(<<"All providers failed">> \o ready[i][l].msg)
    ELSE ready[i][provider]

ExpectedResult(i) ==
    IF task[i].st = "panicked" THEN Err(<<"Task failed", "panicked">>) ELSE ExpectedOut(i)

(* C13: verbose only gates diagnostics.  Without it nothing is written;    *)
(* with or without it the transport invocations (apart from the flag they  *)
(* carry, which is the operation's own) and every output, result list and  *)
(* returned value are the same function of the other arguments, of the     *)
(* transport outcomes and of the order of completion, so two runs that     *)
(* differ only in verbose return the same.                                 *)
C13_VerboseOnlyDiagnostics ==
    /\ ~verbose => diag = {}
    /\ \A c \in DOMAIN calls : c.verbose = verbose
    /\ StrippedCalls = ExpectedCalls
    /\ \A i \in Units :
          /\ task[i].st = "finished" => task[i].out = ExpectedOut(i)
          /\ task[i].st = "panicked" => \E p \in Providers : ready[i][p] = Panic
    /\ \A k \in 1..Len(results) : results[k] = ExpectedResult(k)
    /\ pc = "done" =>
          IF op \in SpawningOps
          THEN returned = [tag |-> "Vec", val |-> [k \in Units |-> ExpectedResult(k)]]
          ELSE returned = ExpectedOut(1)

C13_Witness ==
    /\ verbose
    /\ op = "resolve_batch_race"
    /\ pc = "done"
    /\ returned.val[1].tag = "Err"
    /\ \E p \in Providers : Line("failed", 1, p) \in diag
    /\ Line("racing", 1, "-") \in diag

(* C14: in a batch whose first unit's transport call never completes,      *)
(* every other unit still starts, has its own transport calls answered and *)
(* runs to completion; only the first unit (and the caller waiting for its *)
(* handle) stays where it is.                                              *)
C14_HungUnitStallsAlone ==
    \A i \in 2..MaxHosts : <>(i \in Units => Completed(i))

C14_Witness ==
    /\ op = "resolve_batch"
    /\ Len(hostnames) = MaxHosts
    /\ task[1].st = "running"
    /\ \A i \in 2..MaxHosts : task[i].st = "finished"
    /\ pc = "run"
    /\ results = <<>>

(* the decoded operation a raw operation is the twin of *)
Decoded(o) ==
    CASE o = "resolve_raw"            -> "resolve"
      [] o = "resolve_batch_raw"      -> "resolve_batch"
      [] o = "resolve_batch_race_raw" -> "resolve_batch_race"
      [] OTHER                        -> o

(* what the decoded twin makes of the same transport outcomes, seen in the same order *)
DecodedOut(i) ==
    IF Decoded(op) = "resolve_batch_race"
    THEN race_result(race_future(LastObserved(i), ready[i][LastObserved(i)]))
    ELSE resolve_output(ready[i][provider])

(* C15: a raw operation launches, orders, selects and reports as its       *)
(* decoded twin does.  It makes the invocations the twin makes, one per    *)
(* started unit (and provider, in a race), with the same transport,        *)
(* hostname, configuration, type code and flag, only through resolve_raw   *)
(* instead of resolve; each unit's output is what the twin's code makes of *)
(* the same transport outcomes; the results are in hostname order.         *)
C15_RawAsDecoded ==
    IsRaw(op) =>
        /\ \A c \in DOMAIN calls :
              /\ c.method = "resolve_raw"
              /\ \E i \in Started, p \in Providers :
                    /\ Decoded(op) = "resolve_batch_race" \/ p = provider
                    /\ [c EXCEPT !.method = "resolve"] =
                          [transport |-> Transport(protocol), method |-> "resolve",
                           hostname |-> hostnames[i], config |-> from_provider(p),
                           type_code |-> type_code, verbose |-> verbose]
              /\ calls[c] = Cardinality({i \in Started : hostnames[i] = c.hostname})
        /\ BagCardinality(calls) =
              Cardinality(Started) * (IF Decoded(op) = "resolve_batch_race"
                                      THEN Len(ProviderAll) ELSE 1)
        /\ \A i \in Units : task[i].st = "finished" => task[i].out = DecodedOut(i)
        /\ \A k \in 1..Len(results) :
              results[k] = IF task[k].st = "panicked" THEN TaskFailed ELSE DecodedOut(k)
        /\ pc = "done" =>
              IF op = "resolve_raw"
              THEN returned = DecodedOut(1)
              ELSE returned.val = results /\ Len(results) = Len(hostnames)

C15_Witness ==
    /\ op = "resolve_batch_race_raw"
    /\ pc = "done"
    /\ returned.val[1] = Err(<<"All providers failed", "e2">>)
    /\ \E p \in Providers : ready[1][p] = Err(<<"e1">>)

(* C16: the eight record types have the standard codes, distinct from one  *)
(* another, and from_code of a type's code is the name of that type, never *)
(* "UNKNOWN": going from the code to the name and back to a code gives the *)
(* same code.                                                              *)
C16_CodeRoundTrip ==
    (op = "to_type_code" /\ pc = "done") =>
        /\ returned = CASE input = "A" -> 1     [] input = "NS" -> 2    [] input = "CNAME" -> 5
                         [] input = "MX" -> 15   [] input = "TXT" -> 16  [] input = "AAAA" -> 28
                         [] input = "SVCB" -> 64 [] input = "HTTPS" -> 65
        /\ \A u \in RecordTypes : to_type_code(u) = returned => u = input
        /\ from_code(returned) = fmt_RecordType(input)
        /\ from_code(returned) # "UNKNOWN"
        /\ \A u \in RecordTypes :
              fmt_RecordType(u) = from_code(returned) => to_type_code(u) = returned

C16_Witness ==
    /\ op = "to_type_code"
    /\ pc = "done"
    /\ input = "SVCB"
    /\ returned = 64

(* C17: from_code returns "UNKNOWN" for every 16-bit code that is not the  *)
(* code of one of the eight record types, and the name of a record type    *)
(* only for the code of that type.                                         *)
C17_UnknownCodes ==
    (op = "from_code" /\ pc = "done") =>
        /\ input \notin {1, 2, 5, 15, 16, 28, 64, 65} => returned = "UNKNOWN"
        /\ \A t \in RecordTypes : returned = fmt_RecordType(t) => input = to_type_code(t)
        /\ returned \in {fmt_RecordType(t) : t \in RecordTypes} \cup {"UNKNOWN"}

C17_Witness ==
    /\ op = "from_code"
    /\ pc = "done"
    /\ input = 999
    /\ returned = "UNKNOWN"

(* C18: Provider::all() lists each provider once, four in the library, and *)
(* the providers from_provider has a configuration for are exactly the     *)
(* providers of that list.                                                 *)
C18_RegistryAgreesWithList ==
    /\ (op = "Provider::all" /\ pc = "done") =>
          /\ Len(returned) = 4
          /\ \A j, k \in 1..Len(returned) : returned[j] = returned[k] => j = k
          /\ \A k \in 1..Len(returned) : from_provider(returned[k]).name # ""
    /\ (op = "from_provider" /\ pc = "done") =>
          \E k \in 1..Len(ProviderAll) : ProviderAll[k] = input

(* C19: parse_ech_config never fails fatally.  On every buffer, whatever   *)
(* its length and content, no read or slice leaves the buffer it is taken  *)
(* from, and the function returns none or a list of entries, never empty.  *)
C19_ParserNeverFaults ==
    (op = "parse_ech_config" /\ pc = "done") =>
        /\ returned.tag \in {"None", "Some"}
        /\ returned.tag = "Some" =>
              /\ Len(returned.val) >= 1
              /\ \A k \in 1..Len(returned.val) :
                    returned.val[k].kind \in {"raw", "rich", "plain"}

C19_Witness ==
    /\ op = "parse_ech_config"
    /\ pc = "done"
    /\ Len(input) < 23
    /\ returned.tag = "Some"
    /\ returned.val[1].kind = "plain"
    /\ returned.val[1].version = 65037

(* base64 decoding of a padded text given by the 6-bit values of its characters *)
RECURSIVE b64decode(_)
b64decode(e) ==
    IF Len(e) < 4 THEN <<>>
    ELSE (CASE e[3] = 64 -> <<e[1] * 4 + e[2] \div 16>>
            [] e[4] = 64 -> <<e[1] * 4 + e[2] \div 16, (e[2] % 16) * 16 + e[3] \div 4>>
            [] OTHER     -> <<e[1] * 4 + e[2] \div 16, (e[2] % 16) * 16 + e[3] \div 4,
                              (e[3] % 4) * 64 + e[4]>>)
         \o b64decode(SubSeq(e, 5, Len(e)))

(* The buffer b is a well-formed record: a priority, the root target name, *)
(* one SvcParam of key 5 that fills the rest, holding a list that fills    *)
(* the parameter, holding one config of version 0xfe0d that fills the      *)
(* list, whose contents are filled exactly by their fields, with a         *)
(* public name of at least one byte, all ASCII.  pk, cs and nm are the     *)
(* lengths of the public key, the cipher suites and the public name.       *)
WellFormedEch(b, pk, cs, nm) ==
    /\ Len(b) = 13 + 5 + pk + 2 + cs + 2 + nm
    /\ b[3] = 0
    /\ b[4] = 0 /\ b[5] = 5
    /\ b[6] * 256 + b[7] = Len(b) - 7
    /\ b[8] * 256 + b[9] = Len(b) - 9
    /\ b[10] = 254 /\ b[11] = 13
    /\ b[12] * 256 + b[13] = Len(b) - 13
    /\ b[17] * 256 + b[18] = pk
    /\ b[19 + pk] * 256 + b[20 + pk] = cs
    /\ b[22 + pk + cs] = nm
    /\ nm >= 1
    /\ \A k \in 1..nm : b[22 + pk + cs + k] < 128

(* C20: on a well-formed record with one config of version 0xfe0d and a    *)
(* valid public name, parse_ech_config returns exactly one entry, with     *)
(* version 0xfe0d, the config_id and kem_id of the input, the public name  *)
(* as embedded, and a base64 text that decodes to the bytes of the config: *)
(* version, length and contents.                                           *)
C20_WellFormedRoundTrip ==
    (op = "parse_ech_config" /\ pc = "done") =>
        \A pk \in 0..2, cs \in 0..4, nm \in 0..3 :
            (Len(input) = 22 + pk + cs + nm /\ WellFormedEch(input, pk, cs, nm)) =>
                /\ returned.tag = "Some"
                /\ Len(returned.val) = 1
                /\ returned.val[1].kind = "rich"
                /\ returned.val[1].version = 65037
                /\ returned.val[1].config_id = input[14]
                /\ returned.val[1].kem_id = input[15] * 256 + input[16]
                /\ returned.val[1].public_name =
                      SubSeq(input, 23 + pk + cs, 22 + pk + cs + nm)
                /\ b64decode(returned.val[1].base64) = SubSeq(input, 10, Len(input))

C20_Witness ==
    /\ op = "parse_ech_config"
    /\ pc = "done"
    /\ WellFormedEch(input, 1, 2, 2)
    /\ returned.tag = "Some"

(* C21: when the value of an ech parameter declares a list longer than the *)
(* bytes that follow the length (value length < 2 + declared length),      *)
(* parse_ech_config_list returns exactly one entry, a raw one, whose       *)
(* base64 text decodes to the whole value, and no structured entry.        *)
C21_OverlongListIsRaw ==
    (op = "parse_ech_config_list" /\ pc = "done" /\ Len(input) >= 2) =>
        (Len(input) < 2 + input[1] * 256 + input[2] =>
            /\ returned.tag = "Some"
            /\ Len(returned.val) = 1
            /\ returned.val[1].kind = "raw"
            /\ b64decode(returned.val[1].base64) = input)

C21_Witness ==
    /\ op = "parse_ech_config_list"
    /\ pc = "done"
    /\ Len(input) = 2 + 17
    /\ input[1] * 256 + input[2] = 18
    /\ input[3] = 254
    /\ returned.tag = "Some"
    /\ returned.val[1].kind = "raw"

(* C22: parse_ech_config returns none for every buffer shorter than 3 bytes. *)
C22_ShortBufferIsNone ==
    (op = "parse_ech_config" /\ pc = "done" /\ Len(input) < 3) => returned = None

C22_Witness ==
    /\ op = "parse_ech_config"
    /\ pc = "done"
    /\ input = <<0, 5>>
    /\ returned = None

(* the position after the target name that starts at position pos of b,   *)
(* or -1 when the name does not end inside b                               *)
RECURSIVE NameEnd(_, _)
NameEnd(b, pos) ==
    IF pos >= Len(b) THEN -1
    ELSE IF b[pos + 1] = 0 THEN pos + 1
    ELSE NameEnd(b, pos + 1 + b[pos + 1])

(* from position pos on, b is a sequence of whole parameters, each a key,  *)
(* a length and a value of that length, none of key 5                      *)
RECURSIVE NoEchParams(_, _)
NoEchParams(b, pos) ==
    \/ pos = Len(b)
    \/ /\ pos + 4 <= Len(b)
       /\ b[pos + 1] * 256 + b[pos + 2] # 5
       /\ pos + 4 + b[pos + 3] * 256 + b[pos + 4] <= Len(b)
       /\ NoEchParams(b, pos + 4 + b[pos + 3] * 256 + b[pos + 4])

(* C23: parse_ech_config returns none for every record (a priority, a      *)
(* target name, whole parameters) none of whose parameters has key 5,      *)
(* whatever the other parameters and their values are.                     *)
C23_NoEchParamIsNone ==
    (op = "parse_ech_config" /\ pc = "done" /\ Len(input) >= 3) =>
        ((NameEnd(input, 2) >= 0 /\ NoEchParams(input, NameEnd(input, 2)))
            => returned = None)

C23_Witness ==
    /\ op = "parse_ech_config"
    /\ pc = "done"
    /\ input = SvcbRecord(<<1, 97, 0>>,
                          SvcParam(1, 1, <<7>>)
                          \o SvcParam(6, 10, SvcParam(5, 6, ListValue(<<EchConfig(1, 0, <<>>)>>))))
    /\ returned = None

(* C24: parse_ech_config never returns an empty list: it returns none or a *)
(* list of at least one entry; a record whose ech parameter was found but  *)
(* gave no entry (its value is too short to hold a list) gives none.       *)
C24_NeverEmptyList ==
    (op = "parse_ech_config" /\ pc = "done") =>
        /\ returned = None \/ (returned.tag = "Some" /\ returned.val # <<>>)
        /\ \A v \in {<<>>, <<0>>, <<5>>}, pre \in {<<>>, SvcParam(1, 1, <<7>>)} :
              input = SvcbRecord(<<0>>, pre \o SvcParam(5, Len(v), v)) => returned = None

C24_Witness ==
    /\ op = "parse_ech_config"
    /\ pc = "done"
    /\ input = SvcbRecord(<<0>>, SvcParam(5, 1, <<5>>))
    /\ returned = None

(* The buffer b is a record with the root target name and one ech          *)
(* parameter that fills it, holding a list that fills the parameter,       *)
(* holding one config that fills the list, whose contents are exactly the  *)
(* layout: config id, kem id, a public key of pk bytes, cipher suites of   *)
(* cs bytes, the maximum name length and a public name of nm bytes.        *)
HoldsLayout(b, pk, cs, nm) ==
    /\ Len(b) = 13 + 5 + pk + 2 + cs + 2 + nm
    /\ b[3] = 0
    /\ b[4] = 0 /\ b[5] = 5
    /\ b[6] * 256 + b[7] = Len(b) - 7
    /\ b[8] * 256 + b[9] = Len(b) - 9
    /\ b[10] = 254 /\ b[11] \in {13, 14}
    /\ b[12] * 256 + b[13] = Len(b) - 13
    /\ b[17] * 256 + b[18] = pk
    /\ b[19 + pk] * 256 + b[20 + pk] = cs
    /\ b[22 + pk + cs] = nm

(* C26: for a config of version 0xfe0d or 0xfe0e, the contents fail to     *)
(* parse only when a field overruns them: contents that hold the whole     *)
(* layout, the 9-byte ones with an empty key, no cipher suites and an      *)
(* empty public name included, give a rich entry with the config id, the   *)
(* kem id and the public name.                                             *)
C26_ContentsFailOnlyOnOverrun ==
    (op = "parse_ech_config" /\ pc = "done") =>
        \A pk \in 0..2, cs \in 0..4, nm \in 0..3 :
            HoldsLayout(input, pk, cs, nm) =>
                /\ returned.tag = "Some"
                /\ Len(returned.val) = 1
                /\ returned.val[1].kind = "rich"
                /\ returned.val[1].config_id = input[14]
                /\ returned.val[1].kem_id = input[15] * 256 + input[16]
                /\ Len(returned.val[1].public_name) = nm

(* the first config in the value b of an ech parameter does not fit in b *)
NoConfigFits(b) == Len(b) < 6 \/ 6 + b[5] * 256 + b[6] > Len(b)

(* C27: when the value of an ech parameter declares a list of nonzero      *)
(* length that fits in the value and no config can be decoded from it,     *)
(* the result is exactly one raw entry with the base64 of the whole value; *)
(* a value that declares a list of length zero gives no raw entry.         *)
C27_RawOnlyForNonEmptyList ==
    (op = "parse_ech_config_list" /\ pc = "done" /\ Len(input) >= 2) =>
        /\ (/\ input[1] * 256 + input[2] # 0
            /\ Len(input) >= 2 + input[1] * 256 + input[2]
            /\ NoConfigFits(input))
              => /\ returned.tag = "Some"
                 /\ Len(returned.val) = 1
                 /\ returned.val[1].kind = "raw"
                 /\ b64decode(returned.val[1].base64) = input
        /\ input[1] * 256 + input[2] = 0
              => \/ returned = None
                 \/ /\ returned.tag = "Some"
                    /\ \A k \in 1..Len(returned.val) : returned.val[k].kind # "raw"

(* b is a record with the root target name and one ech parameter that     *)
(* fills it, holding a list that fills the parameter                       *)
IsListRecord(b) ==
    /\ Len(b) >= 9
    /\ b[3] = 0
    /\ b[4] = 0 /\ b[5] = 5
    /\ b[6] * 256 + b[7] = Len(b) - 7
    /\ b[8] * 256 + b[9] = Len(b) - 9

(* the configs laid from position pos of b on, each cut after the length   *)
(* it declares; what is left when a config does not fit comes last         *)
RECURSIVE SplitConfigs(_, _)
SplitConfigs(b, pos) ==
    IF pos >= Len(b) THEN <<>>
    ELSE IF pos + 4 > Len(b) \/ pos + 4 + b[pos + 3] * 256 + b[pos + 4] > Len(b)
    THEN <<SubSeq(b, pos + 1, Len(b))>>
    ELSE <<SubSeq(b, pos + 1, pos + 4 + b[pos + 3] * 256 + b[pos + 4])>>
             \o SplitConfigs(b, pos + 4 + b[pos + 3] * 256 + b[pos + 4])

(* C28: a config of a known version whose contents declare a length that   *)
(* overruns them gives a plain entry (version and base64) for that config  *)
(* only: every config of the list, before and after it, gives its own      *)
(* entry, in the order of the list.                                        *)
C28_OverrunConfigIsPlain ==
    (op = "parse_ech_config" /\ pc = "done" /\ IsListRecord(input)) =>
        LET cs == SplitConfigs(input, 9)
        IN  (/\ \A k \in 1..Len(cs) : cs[k] \in SampleConfigs
             /\ \E k \in 1..Len(cs) : cs[k] \in OverrunConfigs)
              => /\ returned.tag = "Some"
                 /\ Len(returned.val) = Len(cs)
                 /\ \A k \in 1..Len(cs) :
                       /\ b64decode(returned.val[k].base64) = cs[k]
                       /\ returned.val[k].version = cs[k][1] * 256 + cs[k][2]
                       /\ cs[k] \in OverrunConfigs => returned.val[k].kind = "plain"
                       /\ cs[k] \in GoodConfigs =>
                             /\ returned.val[k].kind = "rich"
                             /\ returned.val[k].config_id = cs[k][5]

C28_Witness ==
    /\ op = "parse_ech_config"
    /\ pc = "done"
    /\ IsListRecord(input)
    /\ Len(SplitConfigs(input, 9)) = 3
    /\ SplitConfigs(input, 9)[1] \in GoodConfigs
    /\ SplitConfigs(input, 9)[2] \in OverrunConfigs
    /\ SplitConfigs(input, 9)[3] \in GoodConfigs
    /\ returned.tag = "Some"
    /\ returned.val[3].kind = "rich"

(* C29: a config whose version is neither 0xfe0d nor 0xfe0e is not a       *)
(* failure: it gives exactly one plain entry with its version and the      *)
(* base64 of its bytes and nothing else, and the configs after it give     *)
(* their entries.                                                          *)
C29_UnknownVersionIsPlain ==
    (op = "parse_ech_config" /\ pc = "done" /\ IsListRecord(input)) =>
        LET cs == SplitConfigs(input, 9)
        IN  (/\ \A k \in 1..Len(cs) : cs[k] \in SampleConfigs
             /\ \E k \in 1..Len(cs) : cs[k] \in UnknownVersionConfigs)
              => /\ returned.tag = "Some"
                 /\ Len(returned.val) = Len(cs)
                 /\ \A k \in 1..Len(cs) :
                       /\ b64decode(returned.val[k].base64) = cs[k]
                       /\ cs[k] \in UnknownVersionConfigs =>
                             /\ DOMAIN returned.val[k] = {"kind", "version", "base64"}
                             /\ returned.val[k].kind = "plain"
                             /\ returned.val[k].version = cs[k][1] * 256 + cs[k][2]

C29_Witness ==
    /\ op = "parse_ech_config"
    /\ pc = "done"
    /\ IsListRecord(input)
    /\ Len(SplitConfigs(input, 9)) = 2
    /\ SplitConfigs(input, 9)[1] \in UnknownVersionConfigs
    /\ Len(SplitConfigs(input, 9)[1]) > 4
    /\ SplitConfigs(input, 9)[2] \in GoodConfigs
    /\ returned.tag = "Some"
    /\ returned.val[1].kind = "plain"
    /\ returned.val[2].kind = "rich"

(* the position from pos on at which the whole parameters of b end: the    *)
(* end of b, or the start of a parameter with less than 4 bytes of header  *)
(* or with a value declared longer than what is left                       *)
RECURSIVE WholeParamsEnd(_, _)
WholeParamsEnd(b, pos) ==
    IF pos + 4 > Len(b) \/ pos + 4 + b[pos + 3] * 256 + b[pos + 4] > Len(b)
    THEN pos
    ELSE WholeParamsEnd(b, pos + 4 + b[pos + 3] * 256 + b[pos + 4])

(* the values of the parameters of key 5 among those whole parameters *)
RECURSIVE WholeEchValues(_, _)
WholeEchValues(b, pos) ==
    IF pos + 4 > Len(b) \/ pos + 4 + b[pos + 3] * 256 + b[pos + 4] > Len(b)
    THEN <<>>
    ELSE (IF b[pos + 1] * 256 + b[pos + 2] = 5
          THEN <<SubSeq(b, pos + 5, pos + 4 + b[pos + 3] * 256 + b[pos + 4])>>
          ELSE <<>>)
         \o WholeEchValues(b, pos + 4 + b[pos + 3] * 256 + b[pos + 4])

(* C30: the iteration over the parameters stops, without failing, at the   *)
(* first parameter with less than 4 bytes of header left or with a value   *)
(* declared longer than the rest of the buffer: the entries of the ech     *)
(* parameters before it are returned, and nothing from it on is read.      *)
C30_TruncatedParamStops ==
    (op = "parse_ech_config" /\ pc = "done" /\ Len(input) >= 3 /\ input[3] = 0) =>
        LET vs == WholeEchValues(input, 3)
        IN  WholeParamsEnd(input, 3) < Len(input) =>
              /\ vs = <<>> => returned = None
              /\ (/\ Len(vs) = 1
                  /\ Len(vs[1]) > 2
                  /\ vs[1][1] * 256 + vs[1][2] = Len(vs[1]) - 2
                  /\ SubSeq(vs[1], 3, Len(vs[1])) \in SampleConfigs)
                    => /\ returned.tag = "Some"
                       /\ Len(returned.val) = 1
                       /\ b64decode(returned.val[1].base64) = SubSeq(vs[1], 3, Len(vs[1]))

C30_Witness ==
    /\ op = "parse_ech_config"
    /\ pc = "done"
    /\ Len(input) >= 3
    /\ input[3] = 0
    /\ Len(WholeEchValues(input, 3)) = 1
    /\ SubSeq(WholeEchValues(input, 3)[1], 3, Len(WholeEchValues(input, 3)[1])) \in GoodConfigs
    /\ Len(input) - WholeParamsEnd(input, 3) = 10
    /\ input[WholeParamsEnd(input, 3) + 2] = 5
    /\ returned.tag = "Some"
    /\ Len(returned.val) = 1

(* C25: with --all-providers and without --race all providers are queried  *)
(* simultaneously: the batches of the providers are in flight together, so *)
(* no provider's batch has returned before the batch of every provider of  *)
(* the list was called.                                                    *)
C25_ProvidersSimultaneous ==
    (cli # None /\ cli.all_providers /\ hostnames # <<>>) =>
        \A j \in 1..Len(cli.log) :
            cli.log[j].ev = "returned" =>
                \A q \in 1..Len(ProviderAll) :
                    \E k \in 1..(j - 1) :
                        /\ cli.log[k].ev = "call"
                        /\ cli.log[k].provider = ProviderAll[q]

(* the configs of the lists vs, one list after the other *)
RECURSIVE ConfigsOf(_)
ConfigsOf(vs) == IF vs = <<>> THEN <<>> ELSE SplitConfigs(Head(vs), 2) \o ConfigsOf(Tail(vs))

(* v is a list that fills its value and is made of configs of the samples *)
IsSampleList(v) ==
    /\ Len(v) > 2
    /\ v[1] * 256 + v[2] = Len(v) - 2
    /\ \A k \in 1..Len(SplitConfigs(v, 2)) : SplitConfigs(v, 2)[k] \in SampleConfigs

(* C31: when a record holds several parameters of key 5, parse_ech_config  *)
(* returns the entries of all of them, one parameter after the other in    *)
(* the order of the record; the parameters of other keys are stepped over  *)
(* by their declared length and give nothing.                              *)
C31_AllEchParamsInOrder ==
    (op = "parse_ech_config" /\ pc = "done" /\ Len(input) >= 3 /\ input[3] = 0) =>
        LET vs == WholeEchValues(input, 3)
            cs == ConfigsOf(vs)
        IN  (/\ WholeParamsEnd(input, 3) = Len(input)
             /\ Len(vs) >= 2
             /\ \A k \in 1..Len(vs) : IsSampleList(vs[k]))
              => /\ returned.tag = "Some"
                 /\ Len(returned.val) = Len(cs)
                 /\ \A k \in 1..Len(cs) :
                       /\ b64decode(returned.val[k].base64) = cs[k]
                       /\ returned.val[k].version = cs[k][1] * 256 + cs[k][2]

C31_Witness ==
    /\ op = "parse_ech_config"
    /\ pc = "done"
    /\ Len(input) >= 7
    /\ input[3] = 0
    /\ WholeParamsEnd(input, 3) = Len(input)
    /\ input[5] = 6
    /\ Len(WholeEchValues(input, 3)) = 2
    /\ Len(WholeEchValues(input, 3)[1]) = 21
    /\ Len(WholeEchValues(input, 3)[2]) = 19
    /\ returned.tag = "Some"
    /\ Len(returned.val) = 3
    /\ returned.val[3].version = 65037

(* the flow has just printed the results of the call of stage st *)
JustPrinted(st) ==
    /\ cli # None
    /\ pc = "main"
    /\ cli.log # <<>>
    /\ cli.log[Len(cli.log)].ev = "returned"
    /\ cli.log[Len(cli.log)].stage = st

(* C32, as stated: parse_ech_config is applied to the raw answer of a      *)
(* hostname if and only if ECH extraction was requested and the record     *)
(* type requested by the caller is HTTPS or SVCB; it is never applied when *)
(* the raw query of that hostname failed.                                  *)
C32_ParsedIffEchAndHttps ==
    cli # None =>
        /\ cli.parsed # {} => (cli.ech /\ cli.record_type \in {"HTTPS", "SVCB"})
        /\ JustPrinted("ech") =>
              \A i \in Units :
                 i \in cli.parsed <=>
                    (cli.ech /\ cli.record_type \in {"HTTPS", "SVCB"}
                     /\ returned.val[i].tag = "Ok")

(* C32, amended: parse_ech_config is applied to the raw answer of a        *)
(* hostname if and only if ECH extraction was requested and the raw query  *)
(* made for that hostname, which always asks for type 65 (HTTPS) whatever  *)
(* record type the caller requested, succeeded; it is applied to nothing   *)
(* the decoded query returns.                                              *)
C32_ParsedIffEchAndOk ==
    cli # None =>
        /\ cli.parsed # {} => cli.ech
        /\ JustPrinted("ech") =>
              /\ cli.ech
              /\ IsRaw(op)
              /\ type_code = 65
              /\ \A i \in Units : i \in cli.parsed <=> returned.val[i].tag = "Ok"
        /\ JustPrinted("records") => cli.parsed = {}

C32_Witness ==
    /\ JustPrinted("ech")
    /\ cli.race
    /\ cli.record_type = "A"
    /\ Len(hostnames) = 2
    /\ returned.val[1].tag = "Err"
    /\ returned.val[2].tag = "Ok"
    /\ cli.parsed = {2}

(* C35: a successful decoded result is never an empty list: when the body  *)
(* is a message whose answer section gives no record, the transport        *)
(* returns the no-records-found error instead of success; otherwise it     *)
(* returns one text per answer that has data.                              *)
C35_NoEmptySuccess ==
    (op = "parse_dns_response" /\ pc = "done") =>
        /\ returned.tag \in {"Ok", "Err"}
        /\ returned.tag = "Ok" => returned.val # <<>>
        /\ input # None =>
              LET with == {k \in 1..Len(input.answers) : input.answers[k].rdata # "none"}
              IN  /\ with = {} => returned = Err(<<"No records found">>)
                  /\ with # {} => (returned.tag = "Ok"
                                    /\ Len(returned.val) = Cardinality(with))

C35_Witness ==
    /\ op = "parse_dns_response"
    /\ pc = "done"
    /\ input # None
    /\ Len(input.answers) = 2
    /\ input.answers[1].rdata = "none"
    /\ input.answers[2].rdata = "none"
    /\ returned = Err(<<"No records found">>)

(* C38, as stated: the raw result is the data of the first answer that has *)
(* data, in answer order, whatever its type; later answers are never       *)
(* returned, and an answer section without data gives an error.            *)
C38_FirstAnswerWithData ==
    (op = "extract_raw_rdata" /\ pc = "done" /\ input # None) =>
        LET with == {k \in 1..Len(input.answers) : input.answers[k].rdata # "none"}
        IN  /\ with = {} => returned.tag = "Err"
            /\ with # {} =>
                  \E k \in with :
                     /\ \A j \in with : k <= j
                     /\ returned = Ok(<<"bytes", input.answers[k].rdata>>)

(* C38, amended: the raw result is the data of the first answer, in answer *)
(* order, that has data and whose data encodes to bytes, whatever its      *)
(* type; answers after it are never returned, and when no answer has data  *)
(* that encodes the result is an error, never empty bytes.                 *)
C38_FirstEncodableAnswer ==
    (op = "extract_raw_rdata" /\ pc = "done" /\ input # None) =>
        LET good == {k \in 1..Len(input.answers) : input.answers[k].rdata # "none" /\ input.answers[k].encodes}
        IN  /\ good = {} => returned = Err(<<"No RDATA found in response">>)
            /\ good # {} =>
                  \E k \in good :
                     /\ \A j \in good : k <= j
                     /\ returned = Ok(<<"bytes", input.answers[k].rdata>>)

C38_Witness ==
    /\ op = "extract_raw_rdata"
    /\ pc = "done"
    /\ input # None
    /\ Len(input.answers) = 3
    /\ input.answers[1].rdata = "none"
    /\ input.answers[2] = [rtype |-> "CNAME", rdata |-> "d1", encodes |-> TRUE]
    /\ input.answers[3] = [rtype |-> "HTTPS", rdata |-> "d2", encodes |-> TRUE]
    /\ returned = Ok(<<"bytes", "d1">>)

(* ------------------------------- C33 ----------------------------------- *)
(* C33: in a batch every unit is launched before the operation waits for   *)
(* any result: while a unit is still to be launched no result has been     *)
(* awaited and the operation has not returned, and the launch of the next  *)
(* unit is possible whatever the units launched before it are doing.       *)
C33_AllLaunchedBeforeWait ==
    (op \in SpawningOps /\ pc = "run") =>
        /\ Len(results) > 0 => \A i \in Units : task[i].st # "none"
        /\ handles < Len(hostnames) => (results = <<>> /\ ENABLED Spawn)

(* the second unit was launched while the first was still at work, and    *)
(* nothing has been awaited                                                *)
C33_Witness ==
    /\ op \in SpawningOps
    /\ pc = "run"
    /\ Len(hostnames) = 2
    /\ handles = 2
    /\ task[1].st = "running"
    /\ task[2].st \in {"created", "running"}
    /\ results = <<>>

(* ------------------------------- C34 ----------------------------------- *)
(* C34: a batch returns only after every one of its units has completed,   *)
(* with one entry per hostname and never a partial list; and if every unit *)
(* eventually completes, the batch eventually returns.                     *)
C34_ReturnsAfterAllComplete ==
    /\ [](op \in SpawningOps /\ pc = "done" =>
            /\ \A i \in Units : Completed(i)
            /\ returned.tag = "Vec"
            /\ Len(returned.val) = Len(hostnames))
    /\ (\A i \in 1..MaxHosts : <>(i \in Units => Completed(i))) => <>(pc = "done")

(* a batch of two has returned its two entries, the second unit having    *)
(* completed with a failure                                                *)
C34_Witness ==
    /\ op \in SpawningOps
    /\ pc = "done"
    /\ Len(hostnames) = 2
    /\ \A i \in Units : Completed(i)
    /\ Len(returned.val) = 2
    /\ returned.val[2].tag = "Err"

(* ------------------------------- C37 ----------------------------------- *)
(* the offset in the value at which the k-th entry's config ends: the      *)
(* configs are decoded one after the other from offset 2 on                *)
RECURSIVE EntryEnd(_, _)
EntryEnd(val, k) ==
    IF k = 0 THEN 2 ELSE EntryEnd(val, k - 1) + Len(b64decode(val[k].base64))

(* C37: every config parse_ech_config_list decodes lies inside the list    *)
(* the value declares: the bytes of its entry are the bytes of the value   *)
(* from the end of the entry before it on, and they end at or before       *)
(* offset 2 + the declared length, so no byte beyond the declared list is  *)
(* decoded as part of a config.                                            *)
C37_ConfigsInsideDeclaredList ==
    (op = "parse_ech_config_list" /\ pc = "done" /\ Len(input) >= 2 /\ returned.tag = "Some") =>
        \A k \in 1..Len(returned.val) :
            returned.val[k].kind # "raw" =>
                /\ EntryEnd(returned.val, k) <= Len(input)
                /\ b64decode(returned.val[k].base64)
                      = SubSeq(input, EntryEnd(returned.val, k - 1) + 1, EntryEnd(returned.val, k))
                /\ EntryEnd(returned.val, k) <= 2 + input[1] * 256 + input[2]

(* ------------------------------- C36 ----------------------------------- *)
(* the race has returned: its future yielded a winner or an error *)
RaceReturned == task[1].st = "finished"

(* the transport call of provider p's attempt has completed *)
AttemptCompleted(p) == ready[1][p].tag \in {"Ok", "Err"}

(* C36: a race in which the attempt of every provider completes returns,   *)
(* with a winner or with the all-failed error: once every attempt has      *)
(* completed the race eventually returns, if it has not before.  And a     *)
(* race returns only when an attempt has succeeded or every attempt has    *)
(* completed, so one in which no attempt succeeds and some attempt never   *)
(* completes never returns.                                                *)
C36_RaceTermination ==
    /\ (\A p \in Providers : AttemptCompleted(p))
          ~> (/\ RaceReturned
              /\ \/ task[1].out.tag = "Ok"
                 \/ /\ task[1].out.tag = "Err"
                    /\ task[1].out.msg[1] = "All providers failed")
    /\ [](RaceReturned =>
            \/ \E p \in Providers : ready[1][p].tag = "Ok"
            \/ \A p \in Providers : AttemptCompleted(p))

(* every attempt completed with a failure and the race returned the error *)
C36_Witness ==
    /\ op \in RaceOps
    /\ RaceReturned
    /\ task[1].out.tag = "Err"
    /\ \A p \in Providers : ready[1][p].tag = "Err"

=============================================================================
